---- MODULE Spec2Model ----
(***************************************************************************)
(* Model of the duty-reconciliation application:                           *)
(*   - StandaloneDutyService.process_mawb  (service/duty_service.py)       *)
(*   - NetChbDutyRunner.process_mawb and its stages                        *)
(*                          (service/netchb_duty/playwright_runner.py)     *)
(*   - DutyRunnerWidget, the batch orchestrator (gui/duty_runner.py)       *)
(*                                                                         *)
(* Numbers read back from Summary strings by parse_value are kept in       *)
(* hundredths ("1" is 100, "$1.02" is 102), so the 0.01 tolerance is 1.    *)
(***************************************************************************)
EXTENDS Integers, Sequences, FiniteSets, TLC

VARIABLES
    \* ---- StandaloneDutyService.process_mawb (one call) ----
    pc,              \* position of the call
    sections,        \* the sections argument
    checkbook_hawbs, \* the checkbook_hawbs argument ("None" when absent)
    local_session,   \* LocalSessionStorage file of the broker
    session_cookies, \* TRUE when the browser context holds cookies
    session_reused,  \* local of the service
    login_calls,     \* number of calls of runner.login
    session_saved,   \* how the try block around save_session ended
    svc_error,       \* str(exc) caught by the service's except clause
    db,              \* the Result row under (mawb, broker_id, format_id)
    upsert_calls,    \* statuses passed to db.upsert_result, in call order
    ret,             \* what the call gave back to its caller
    \* ---- NetChbDutyRunner.process_mawb ----
    summary,         \* the summary dict
    result,          \* DutyRunResult: status, error_message, download_path
    entries_data,    \* local entries_data
    should_download, \* local should_download of the PDF block
    requests,        \* Portal requests issued, in order
    uploads,         \* objects put into the object store, in order
    logs,            \* section markers written by self.log, in order
    raised,          \* stages whose exception reached the stage's except
    transient,       \* requests whose failure was a transient one
    \* ---- DutyRunnerWidget ----
    parsed_items,
    session_results,
    current_processing_index,
    threads,         \* ProcessingThreads started and not yet reported
    next_thread,     \* number of ProcessingThreads created so far
    start_enabled,   \* start_processing_btn.isEnabled()
    completed,       \* lists emitted by processing_complete, in order
    gui_crash,       \* an exception escaped a slot of the widget
    \* ---- NetChbDutyRunner.is_session_valid (one call) ----
    probe,           \* what the HTTP probe and the browser probe come back with
    is_valid,        \* what is_session_valid gives back
    \* ---- LocalSessionStorage, the file of one broker ----
    saving,          \* the state a save_session in progress is writing
    previous,        \* the complete state on disk when that save began
    load_pc,         \* position of a load_session in progress
    loaded,          \* what the latest load_session gave back
    batch_status,    \* status column of the batch row in the database
    exec_query,      \* the query handed to _execute: the errors its
                     \* executions raise before one succeeds
    attempt,         \* loop variable of _execute
    executions,      \* how often query.execute() was called
    exec_ret,        \* how _execute ended
    table_rows,      \* rows of the results table with the upserted key
    supabase,        \* the Supabase client: the first one or a re-created one
    text,            \* the text handed to parse_mawb_input, as its lines
    parser,          \* which parse_mawb_input was called on it
    parse_ret,       \* what that call gave: the items, or an exception
    items_in,        \* a list of items to be written as 5-column lines
    serialized,      \* those lines
    items_out,       \* what parse_mawb_input gives back for them
    report_args,     \* arguments of _build_custom_report_payload, and today
    form_data,       \* the payload it returns
    key_item,        \* the item whose files are stored, and its store outcomes
    key_pc,          \* "idle", "ran", "returned", "finished"
    s3_keys,         \* keys s3_client.upload_file has written
    run_summary,     \* what the runner leaves the service about its uploads
    item_result,     \* the item's result dict
    otp_pc,          \* position of get_fresh_otp
    otp_call,        \* its arguments
    clock,           \* time.time(), in whole seconds
    current_code,    \* the code of the current iteration
    waited,          \* seconds slept so far
    otp_ret,         \* what get_fresh_otp returned
    progress_in,     \* batch size, item index and percentage of _on_progress
    progress_bar,    \* the value _on_progress sets
    workbook,        \* the downloaded Custom Report: its dialect, its rows
    report,          \* the totals _parse_custom_report_excel computed
    failed_rows      \* the rows whose try block raised

svcVars == <<pc, sections, checkbook_hawbs, local_session, session_cookies,
             session_reused, login_calls, session_saved, svc_error, db,
             upsert_calls, ret>>
runVars == <<summary, result, entries_data, should_download, requests,
             uploads, logs, raised, transient>>
guiVars == <<parsed_items, session_results, current_processing_index, threads,
             next_thread, start_enabled, completed, gui_crash>>
storeVars == <<saving, previous, load_pc, loaded>>
execVars == <<exec_query, attempt, executions, exec_ret, table_rows,
              supabase>>
parseVars == <<text, parser, parse_ret>>
tripVars == <<items_in, serialized, items_out>>
payloadVars == <<report_args, form_data>>
keyVars == <<key_item, key_pc, s3_keys, run_summary, item_result>>
otpVars == <<otp_pc, otp_call, clock, current_code, waited, otp_ret>>
progressVars == <<progress_in, progress_bar>>
excelVars == <<workbook, report, failed_rows>>
moreVars == <<tripVars, payloadVars, keyVars, otpVars, progressVars, excelVars>>
laterVars == <<batch_status, execVars, parseVars, moreVars>>
unitVars == <<probe, is_valid, storeVars, laterVars>>
vars == <<svcVars, runVars, guiVars, unitVars>>

\* what the stages of the runner leave alone
svcState == <<sections, checkbook_hawbs, local_session, session_cookies,
              session_reused, login_calls, session_saved, db, upsert_calls,
              ret>>

----------------------------------------------------------------------------
\* Summary values and parse_value

NA == "N/A"

SummaryKeys ==
    {"MAWB Number", "AMS Total HAWBs", "AMS Duty", "AMS Total T-11 Entries",
     "AMS Entries Accepted", "Rejected Entries", "7501 Total T-11 Entries",
     "7501 Total Houses", "7501 Duty", "Report Duty", "Report Total House",
     "Total Informal Duty", "Complete Total Duty", "Entry Date",
     "Cargo Release Date", "7501 Batch PDF URL", "Checkbook HAWBs"}

\* str(n) for the integers the model produces
IntStr(n) ==
    CASE n = -3 -> "-3" [] n = -2 -> "-2" [] n = -1 -> "-1" [] n = 0 -> "0"
      [] n = 1 -> "1" [] n = 2 -> "2" [] n = 3 -> "3" [] n = 4 -> "4"
      [] OTHER -> "many"

\* float(s) in hundredths, for the strings float() accepts
FloatOf ==
    ("-3" :> -300) @@ ("-2" :> -200) @@ ("-1" :> -100) @@ ("0" :> 0) @@
    ("1" :> 100) @@ ("2" :> 200) @@ ("3" :> 300) @@ ("4" :> 400) @@
    ("1.00" :> 100) @@ ("1.01" :> 101) @@ ("1.02" :> 102)

\* val_str = str(val).replace("$", "").replace(",", "").strip()
StripCurrency(s) ==
    CASE s = "$1.00" -> "1.00"
      [] s = "$1.02" -> "1.02"
      [] OTHER -> s

\* parse_value of the pre-PDF verification: float(val_str), 0 on ValueError
parse_value(val) ==
    LET val_str == StripCurrency(val)
    IN  IF val_str \in DOMAIN FloatOf THEN FloatOf[val_str] ELSE 0

Abs(x) == IF x < 0 THEN -x ELSE x

tolerance == 1

Put(d, k, v) == [x \in (DOMAIN d) \cup {k} |-> IF x = k THEN v ELSE d[x]]

\* an update that replaces the dict instead of merging into it
ReplaceDict(d, e) == e

\* dict.update
Update(d, e) ==
    [x \in (DOMAIN d) \cup (DOMAIN e) |-> IF x \in DOMAIN e THEN e[x] ELSE d[x]]

\* dict.get(k) with None rendered as "None"
Get(d, k) == IF k \in DOMAIN d THEN d[k] ELSE "None"

\* a summary literal whose PDF URL starts out empty
InitialSummaryEmptyUrl(cb) ==
    [k \in SummaryKeys |->
        IF k = "MAWB Number" THEN "mawb"
        ELSE IF k = "Checkbook HAWBs" THEN (IF cb = "None" THEN NA ELSE cb)
        ELSE IF k = "7501 Batch PDF URL" THEN ""
        ELSE NA]

\* the summary literal at the top of NetChbDutyRunner.process_mawb
InitialSummary(cb) ==
    [k \in SummaryKeys |->
        IF k = "MAWB Number" THEN "mawb"
        ELSE IF k = "Checkbook HAWBs" THEN (IF cb = "None" THEN NA ELSE cb)
        ELSE NA]

----------------------------------------------------------------------------
\* Portal pages, as far as the parsers look at them

\* text of the Total HAWBs cell (cells[6]) of the first AMS result row
HawbTexts == {"", "1"}

\* AMS search response body
AmsSearchPages ==
    [results_table : BOOLEAN,   \* div#resultsDiv > table > tbody present
     no_awb        : BOOLEAN,   \* page text contains "there is no awb"
     rows          : 0..1,      \* tr.light / tr.dark rows in the tbody
     cells         : {6, 7},    \* td cells of the first row
     master_link   : BOOLEAN,   \* first cell holds an anchor with an href
     hawbs         : HawbTexts]

\* _parse_ams_search_results
_parse_ams_search_results(html) ==
    IF ~html.results_table THEN [kind |-> "None"]
    ELSE IF html.no_awb THEN [kind |-> "master_not_found"]
    ELSE IF html.rows = 0 THEN [kind |-> "master_not_found"]
    ELSE IF html.cells < 7 THEN [kind |-> "None"]
    ELSE [kind |-> "data",
          master_link |-> html.master_link,
          total_hawbs |-> IF html.hawbs = "" THEN NA ELSE html.hawbs]

\* AMS master (detail) page: the anchors esD, esC, esA, esH
DutyTexts == {"$1.00", "$1.02"}
MasterPages ==
    [esD : DutyTexts, esC : {1}, esA : 0..1, esH : 1..2]

\* _parse_ams_master_page
_parse_ams_master_page(html) ==
    [duty             |-> IF html.esD = "" THEN NA ELSE html.esD,
     t11_entries      |-> IntStr(html.esC),
     entries_accepted |-> IntStr(html.esA),
     houses_7501      |-> IntStr(html.esH)]

\* _process_ams_section_http: the summary it leaves, whether it raised, and
\* the requests it sent.  search_ok / detail_ok: the request came back
\* without an exception and raise_for_status() passed.
_process_ams_section_http(sum, cookies, search_ok, page, detail_ok, master) ==
    LET search_data == _parse_ams_search_results(page)
        master_data == _parse_ams_master_page(master)
        rejected    == master.esC - master.esA
        s2 == Put(Put(sum, "AMS Total HAWBs", search_data.total_hawbs),
                  "AMS Arrival Date", "01/02/24")
        s4 == Put(Put(Put(Put(Put(s2,
                  "AMS Duty", master_data.duty),
                  "AMS Total T-11 Entries", master_data.t11_entries),
                  "AMS Entries Accepted", master_data.entries_accepted),
                  "7501 Total Houses", master_data.houses_7501),
                  "Rejected Entries", IntStr(rejected))
    IN  IF ~cookies THEN
            [summary |-> sum, raised |-> TRUE, requests |-> <<>>]
        ELSE IF ~search_ok THEN
            [summary |-> sum, raised |-> TRUE, requests |-> <<"ams_search">>]
        ELSE IF search_data.kind = "master_not_found" THEN
            [summary |-> Put(sum, "Master Status", "Not Found"),
             raised |-> FALSE, requests |-> <<"ams_search">>]
        ELSE IF search_data.kind = "None" THEN
            [summary |-> sum, raised |-> TRUE, requests |-> <<"ams_search">>]
        ELSE IF ~search_data.master_link THEN
            [summary |-> s2, raised |-> TRUE, requests |-> <<"ams_search">>]
        ELSE IF ~detail_ok THEN
            [summary |-> s2, raised |-> TRUE,
             requests |-> <<"ams_search", "ams_detail">>]
        ELSE
            [summary |-> s4, raised |-> FALSE,
             requests |-> <<"ams_search", "ams_detail">>]

\* Entries search response body: the data rows of the results table
EntryRowKinds ==
    [cells7   : BOOLEAN,   \* the row has at least 7 cells
     link     : BOOLEAN,   \* first cell holds an anchor with an href
     entry_no : BOOLEAN,   \* the href matches filerCode=...&entryNo=\d+
     dated    : BOOLEAN]   \* a cell parses as mm/dd/yy

MaxEntryRows == 1

EntriesPages ==
    [table      : BOOLEAN,  \* div.dataCell > table > tbody present
     no_results : BOOLEAN,  \* first row reads "no results" / "no entries"
     rows       : UNION {[1..n -> EntryRowKinds] : n \in 0..MaxEntryRows}]

\* the entry_rows list; of each row dict only query_string is kept, the
\* one field the PDF download reads (the entry number)
RECURSIVE ParseEntryRows(_)
ParseEntryRows(rows) ==
    IF rows = <<>> THEN <<>>
    ELSE LET row  == rows[1]
             rest == ParseEntryRows(Tail(rows))
         IN  IF ~row.cells7 THEN
                 IF row.link
                 THEN <<[query_string |-> row.entry_no]>> \o rest
                 ELSE rest
             ELSE <<[query_string |-> row.link /\ row.entry_no]>> \o rest

\* _parse_entries_search_results
_parse_entries_search_results(html) ==
    IF ~html.table THEN [kind |-> "None"]
    ELSE IF html.rows = <<>> \/ html.no_results THEN
        [kind |-> "data", entry_rows |-> <<>>, entries_not_found |-> TRUE,
         oldest_entry_date |-> FALSE]
    ELSE LET entry_rows == ParseEntryRows(html.rows)
         IN  [kind |-> "data", entry_rows |-> entry_rows,
              entries_not_found |-> FALSE,
              oldest_entry_date |->
                  \E i \in 1..Len(html.rows) :
                      html.rows[i].cells7 /\ html.rows[i].dated]

\* the value of entries_data when the Entries section did not run or raised
None == [kind |-> "None"]

\* _process_entries_section_http
_process_entries_section_http(sum, cookies, search_ok, page) ==
    LET search_data == _parse_entries_search_results(page)
    IN  IF ~cookies THEN
            [summary |-> sum, raised |-> TRUE, requests |-> <<>>,
             data |-> None]
        ELSE IF ~search_ok \/ search_data.kind = "None" THEN
            [summary |-> sum, raised |-> TRUE,
             requests |-> <<"entries_search">>, data |-> None]
        ELSE IF search_data.entries_not_found THEN
            [summary |-> Put(sum, "Entries Status", "Not Found"),
             raised |-> FALSE, requests |-> <<"entries_search">>,
             data |-> [kind |-> "data", oldest_entry |-> FALSE,
                       entry_rows |-> <<>>, entries_not_found |-> TRUE]]
        ELSE
            [summary |-> IF search_data.oldest_entry_date
                         THEN Put(sum, "Entry Date", "01/02/24") ELSE sum,
             raised |-> FALSE, requests |-> <<"entries_search">>,
             data |-> [kind |-> "data",
                       oldest_entry |-> search_data.oldest_entry_date,
                       entry_rows |-> search_data.entry_rows,
                       entries_not_found |-> FALSE]]

----------------------------------------------------------------------------
\* Custom Report

\* what _parse_custom_report_excel returns for the downloaded workbook
ReportTotals ==
    {[d \in {"Report Duty", "Report Total House", "Total Informal Duty",
             "Complete Total Duty", "Entry Date", "Cargo Release Date"} |->
        CASE d = "Report Duty"         -> duty
          [] d = "Report Total House"  -> house
          [] d = "Total Informal Duty" -> "0.00"
          [] d = "Complete Total Duty" -> duty
          [] d = "Entry Date"          -> "01/02/24"
          [] OTHER                     -> NA] :
     duty \in {"1.00", "1.01"}, house \in {"1", "2"}}

\* outcome of storage.upload_excel: uploaded and presigned, uploaded but the
\* presigned URL came back "", or the upload raised
UploadOutcomes == {"url", "no_url", "raise"}

\* the report_summary literal of _process_custom_report_http
InitialReportSummary ==
    [k \in {"Report Duty", "Report Total House", "Total Informal Duty",
            "Complete Total Duty", "Cargo Release Date"} |-> NA]

\* _process_custom_report and _process_custom_report_http.
\* step: how far the function gets before it raises
\*   "template" template_payload missing or without headerFields
\*   "cookies"  no cookies in the session
\*   "http"     the POST raised or raise_for_status() failed
\*   "type"     content-type is neither excel nor spreadsheet
\*   "parse"    load_workbook raised
\*   "done"     parsed; upload is then tried
_process_custom_report(step, totals, upload) ==
    LET sent == IF step \in {"template", "cookies"} THEN <<>>
                ELSE <<"custom_report">>
        parsed == Update(InitialReportSummary, totals)
        stored == IF upload = "raise" THEN parsed
                  ELSE Put(Put(parsed, "excel_storage_path", "excel_key"),
                           "excel_download_url",
                           IF upload = "url" THEN "excel_url" ELSE "")
    IN  IF step # "done" THEN
            [raised |-> TRUE, requests |-> sent, uploads |-> <<>>,
             artifact_path |-> FALSE, report_summary |-> InitialReportSummary]
        ELSE
            [raised |-> FALSE, requests |-> sent,
             uploads |-> IF upload = "raise" THEN <<>> ELSE <<"excel">>,
             artifact_path |-> TRUE, report_summary |-> stored]

CustomSteps(cookies) ==
    IF cookies THEN {"template", "http", "type", "parse", "done"}
    ELSE {"template", "cookies"}

----------------------------------------------------------------------------
\* 7501 Batch PDF

\* entries_data and entries_data.get("entries_not_found")
EntriesNotFound(ed) == ed.kind # "None" /\ ed.entries_not_found

\* entries_data["oldest_entry"] if entries_data else None
OldestEntry(ed) == ed.kind # "None" /\ ed.oldest_entry

\* entries_data.get("entry_rows") if entries_data else None
EntryRows(ed) == IF ed.kind = "None" THEN <<>> ELSE ed.entry_rows

\* the initial verification before the PDF download.  exact: the outcome of
\* the binary floating point comparison abs(a - b) <= 0.01 when the two
\* amounts differ by exactly one hundredth (1.01 - 1.00 compares greater,
\* 0.01 - 0.00 does not).
InitialVerification(sum, exact) ==
    LET ams_hawbs     == parse_value(Get(sum, "AMS Total HAWBs"))
        houses_7501   == parse_value(Get(sum, "7501 Total Houses"))
        report_houses == parse_value(Get(sum, "Report Total House"))
        checkbook     == parse_value(Get(sum, "Checkbook HAWBs"))
        rejected      == parse_value(Get(sum, "Rejected Entries"))
        ams_duty      == parse_value(Get(sum, "AMS Duty"))
        report_duty   == parse_value(Get(sum, "Report Duty"))
        houses_match  == /\ ams_hawbs = houses_7501
                         /\ houses_7501 = report_houses
                         /\ report_houses = checkbook
        rejected_ok   == rejected = 0
        duties_match  == \/ Abs(ams_duty - report_duty) < tolerance
                         \/ Abs(ams_duty - report_duty) = tolerance /\ exact
    IN  houses_match /\ rejected_ok /\ duties_match

\* extract_entry_no_from_row over entry_rows: some row yields an entry number
HasEntryNumbers(entry_rows) ==
    \E i \in 1..Len(entry_rows) : entry_rows[i].query_string

\* a download that fetches the entries again before the PDF
RefetchEntries(entry_rows, fetch) ==
    [requests |-> <<"entries_search", "pdf">>, pdf_path |-> fetch = "pdf"]

\* _download_7501_batch_pdf_http
\*   fetch: "http" the POST raised, "type" the response is not a PDF,
\*          "pdf" a PDF came back (compressed, or kept as it is)
_download_7501_batch_pdf_http(entry_rows, fetch) ==
    IF ~HasEntryNumbers(entry_rows) THEN
        [requests |-> <<>>, pdf_path |-> FALSE]
    ELSE
        [requests |-> <<"pdf">>, pdf_path |-> fetch = "pdf"]

PdfFetches == {"http", "type", "pdf"}

\* extract_entries_and_duty_from_pdf: raised, or (entry_count, total_duty)
PdfExtractions == {"raise", "found"}

AfterExtraction(sum, extraction) ==
    CASE extraction = "found" ->
            Put(Put(sum, "7501 Total T-11 Entries", "1"), "7501 Duty", "1.00")
      [] OTHER -> sum

\* storage.upload_pdf and the summary["7501 Batch PDF URL"] assignment
AfterPdfUpload(sum, upload) ==
    Put(sum, "7501 Batch PDF URL", IF upload = "url" THEN "pdf_url" ELSE "")

----------------------------------------------------------------------------
\* StandaloneDutyService.process_mawb, up to the call of the runner

SectionChoices ==
    [ams : BOOLEAN, entries : BOOLEAN, custom : BOOLEAN,
     download_7501_pdf : BOOLEAN]

CheckbookChoices == {"None", "1"}

NoResult == [status |-> "unset", error_message |-> "None",
             download_path |-> FALSE]

\* a dict that was never filled, and summary=None in a stored row
EmptyDict == [k \in {} |-> NA]

NoRow == [status |-> "none", error_message |-> "None", summary |-> EmptyDict]

NoReturn == [kind |-> "none", success |-> FALSE, status |-> "none",
             error |-> "None"]

\* db.get_broker / db.get_format; a lookup that finds nothing raises
\* ValueError outside the try block.  load_session never raises.
ProcessMawbStart ==
    /\ pc = "idle"
    /\ \E secs \in SectionChoices, cb \in CheckbookChoices,
          broker_found \in BOOLEAN, format_found \in BOOLEAN :
          /\ sections' = secs
          /\ checkbook_hawbs' = cb
          /\ IF broker_found /\ format_found
             THEN pc' = "acquire" /\ ret' = ret
             ELSE pc' = "raised" /\
                  ret' = [kind |-> "raise", success |-> FALSE,
                          status |-> "none", error |-> "not found"]
    /\ UNCHANGED <<local_session, session_cookies, session_reused, login_calls,
                   session_saved, svc_error,
                   db, upsert_calls>>
    /\ UNCHANGED <<runVars, guiVars, unitVars>>

\* the resource coordinator contexts and NetChbDutyRunner.__aenter__
AcquireRunner ==
    /\ pc = "acquire"
    /\ \E ok \in BOOLEAN :
          IF ok THEN pc' = "session" /\ svc_error' = svc_error
          ELSE pc' = "except" /\ svc_error' = "setup failed"
    /\ UNCHANGED <<sections, checkbook_hawbs, local_session, session_cookies,
                   session_reused, login_calls,
                   session_saved, db, upsert_calls, ret>>
    /\ UNCHANGED <<runVars, guiVars, unitVars>>

\* load_session(broker_id): None when the file is missing or is not
\* complete JSON
load_session(file) ==
    IF file \in {"none", "empty", "partial"} THEN "None" ELSE file

\* load_session_state + is_session_valid; an exception counts as invalid
ProbeOutcomes == {"valid", "invalid", "raise"}

ReuseSession ==
    /\ pc = "session"
    /\ IF load_session(local_session) = "None"
       THEN /\ pc' = "login"
            /\ UNCHANGED <<session_reused, session_cookies>>
       ELSE \E checked \in ProbeOutcomes, cookies \in BOOLEAN :
               IF checked = "valid"
               THEN /\ session_reused' = TRUE
                    /\ session_cookies' = cookies
                    /\ pc' = "runner"
               ELSE /\ pc' = "login"
                    /\ UNCHANGED <<session_reused, session_cookies>>
    /\ UNCHANGED <<sections, checkbook_hawbs, local_session, login_calls,
                   session_saved, svc_error, db, upsert_calls, ret>>
    /\ UNCHANGED <<runVars, guiVars, unitVars>>

\* how the try block around the save can end:
\*   "saved"     save_session wrote the file and returned True
\*   "unchanged" save_session_state raised, or open() failed: file as before
\*   "partial"   open(path, 'w') truncated the file and json.dump failed
SaveOutcomes == {"saved", "unchanged", "partial"}

\* a save that leaves the file as it was
SessionNotWritten(file, outcome) == file

\* the file after the try block
save_session(file, outcome) ==
    CASE outcome = "saved"   -> "new"
      [] outcome = "partial" -> "partial"
      [] OTHER               -> file

\* runner.login, then save_session_state + local_sessions.save_session
\* inside their own try block
Login ==
    /\ pc = "login"
    /\ login_calls' = login_calls + 1
    /\ \E login_ok \in BOOLEAN, outcome \in SaveOutcomes, cookies \in BOOLEAN :
          IF login_ok
          THEN /\ pc' = "runner"
               /\ session_cookies' = cookies
               /\ local_session' = save_session(local_session, outcome)
               /\ session_saved' = IF outcome = "saved" THEN "True"
                                   ELSE "False"
               /\ svc_error' = svc_error
          ELSE /\ pc' = "except"
               /\ svc_error' = "login failed"
               /\ UNCHANGED <<session_cookies, local_session, session_saved>>
    /\ UNCHANGED <<sections, checkbook_hawbs, session_reused, db,
                   upsert_calls, ret>>
    /\ UNCHANGED <<runVars, guiVars, unitVars>>

----------------------------------------------------------------------------
\* NetChbDutyRunner.process_mawb

\* self.page check, _normalize_mawb, the summary literal
RunnerStart ==
    /\ pc = "runner"
    /\ \E eleven_digits \in BOOLEAN :
          IF eleven_digits
          THEN /\ pc' = "ams"
               /\ summary' = InitialSummary(checkbook_hawbs)
               /\ svc_error' = svc_error
          ELSE /\ pc' = "except"
               /\ summary' = summary
               /\ svc_error' = "must contain exactly 11 digits"
    /\ UNCHANGED <<sections, checkbook_hawbs, local_session, session_cookies,
                   session_reused, login_calls,
                   session_saved, db, upsert_calls, ret>>
    /\ UNCHANGED <<result, entries_data, should_download, requests, uploads,
                   logs, raised, transient>>
    /\ UNCHANGED <<guiVars, unitVars>>

\* the request a stage gave up on: the last one it sent, when that one
\* raised or failed raise_for_status()
FailedRequest(reqs, ok) ==
    IF ok \/ reqs = <<>> THEN {} ELSE {reqs[Len(reqs)]}

\* the failure of a request is a transient one (connection reset, timeout,
\* 5xx) or a lasting one
Transient(failed) == {{}, failed}

\* if sections.get("ams"): ... and the master-not-found return
AmsStage ==
    /\ pc = "ams"
    /\ IF ~sections.ams
       THEN /\ pc' = "entries"
            /\ UNCHANGED <<summary, result, requests, logs, raised,
                           transient>>
       ELSE \E search_ok \in BOOLEAN, page \in AmsSearchPages,
               detail_ok \in BOOLEAN, master \in MasterPages :
               LET r == _process_ams_section_http(summary, session_cookies,
                            search_ok, page, detail_ok, master)
               IN  /\ summary' = r.summary
                   /\ requests' = requests \o r.requests
                   /\ logs' = Append(logs, "ams")
                   /\ raised' = IF r.raised THEN raised \cup {"ams"}
                                ELSE raised
                   /\ \E t \in Transient(FailedRequest(r.requests,
                                    IF Len(r.requests) = 2 THEN detail_ok
                                    ELSE search_ok)) :
                         transient' = transient \cup t
                   /\ IF Get(r.summary, "Master Status") = "Not Found"
                      THEN /\ result' = [result EXCEPT
                                  !.status = "failed",
                                  !.error_message = "Master not found"]
                           /\ pc' = "returned"
                      ELSE /\ result' = result
                           /\ pc' = "entries"
    /\ UNCHANGED <<entries_data, should_download, uploads>>
    /\ UNCHANGED <<svcState, svc_error, guiVars, unitVars>>

\* the Entries section: runs for entries, custom or download_7501_pdf
EntriesStage ==
    /\ pc = "entries"
    /\ IF ~(sections.entries \/ sections.custom \/ sections.download_7501_pdf)
       THEN UNCHANGED <<summary, entries_data, requests, logs, raised,
                        transient>>
       ELSE \E search_ok \in BOOLEAN, page \in EntriesPages :
               LET r == _process_entries_section_http(summary,
                            session_cookies, search_ok, page)
               IN  /\ summary' = r.summary
                   /\ entries_data' = r.data
                   /\ requests' = requests \o r.requests
                   /\ logs' = Append(logs, "entries")
                   /\ raised' = IF r.raised THEN raised \cup {"entries"}
                                ELSE raised
                   /\ \E t \in Transient(FailedRequest(r.requests,
                                                        search_ok)) :
                         transient' = transient \cup t
    /\ pc' = "custom"
    /\ UNCHANGED <<result, should_download, uploads>>
    /\ UNCHANGED <<svcState, svc_error, guiVars, unitVars>>

\* a Custom Report block that is skipped only when there is no entries_data
CustomSkippedWithoutData(ed) == ed.kind = "None"

\* the Custom Report block is entered but does nothing
CustomSkipped(ed) == EntriesNotFound(ed) \/ ~OldestEntry(ed)

\* if sections.get("custom"): ...
CustomStage ==
    /\ pc = "custom"
    /\ IF ~sections.custom
       THEN UNCHANGED <<summary, result, requests, uploads, logs, raised,
                        transient>>
       ELSE IF CustomSkipped(entries_data)
       THEN /\ logs' = Append(logs, "custom")
            /\ UNCHANGED <<summary, result, requests, uploads, raised,
                           transient>>
       ELSE \E step \in CustomSteps(session_cookies), totals \in ReportTotals,
               upload \in UploadOutcomes :
               LET r == _process_custom_report(step, totals, upload)
               IN  /\ logs' = Append(logs, "custom")
                   /\ requests' = requests \o r.requests
                   /\ uploads' = uploads \o r.uploads
                   /\ \E t \in Transient(FailedRequest(r.requests,
                                                        step # "http")) :
                         transient' = transient \cup t
                   /\ IF r.raised
                      THEN /\ raised' = raised \cup {"custom"}
                           /\ UNCHANGED <<summary, result>>
                      ELSE /\ raised' = raised
                           /\ result' = [result EXCEPT
                                            !.download_path = r.artifact_path]
                           /\ summary' = Update(summary, r.report_summary)
    /\ pc' = "pdf"
    /\ UNCHANGED <<entries_data, should_download>>
    /\ UNCHANGED <<svcState, svc_error, guiVars, unitVars>>

\* the PDF block is entered but does nothing before the verification
PdfSkipped(ed, cookies) ==
    EntriesNotFound(ed) \/ EntryRows(ed) = <<>> \/ ~cookies

\* the verification applies only with both ams and custom selected
VerificationApplies(secs) == secs.ams /\ secs.custom

\* if sections.get("download_7501_pdf"): ... ; the post-PDF verification only
\* writes log lines and is left out
PdfStage ==
    /\ pc = "pdf"
    /\ IF ~sections.download_7501_pdf
       THEN UNCHANGED <<summary, should_download, requests, uploads, logs,
                        raised, transient>>
       ELSE
         /\ logs' = Append(logs, "pdf")
         /\ \E context_ok \in BOOLEAN, exact \in BOOLEAN,
               fetch \in PdfFetches, extraction \in PdfExtractions,
               upload \in UploadOutcomes :
             IF EntriesNotFound(entries_data) \/ EntryRows(entries_data) = <<>>
             THEN UNCHANGED <<summary, should_download, requests, uploads,
                              raised, transient>>
             ELSE IF ~context_ok
             THEN /\ raised' = raised \cup {"pdf"}
                  /\ UNCHANGED <<summary, should_download, requests, uploads,
                                 transient>>
             ELSE IF PdfSkipped(entries_data, session_cookies)
             THEN UNCHANGED <<summary, should_download, requests, uploads,
                              raised, transient>>
             ELSE
               LET verified == IF VerificationApplies(sections)
                               THEN InitialVerification(summary, exact)
                               ELSE TRUE
                   d == _download_7501_batch_pdf_http(
                            EntryRows(entries_data), fetch)
               IN  /\ raised' = raised
                   /\ IF ~verified
                      THEN /\ should_download' = "False"
                           /\ UNCHANGED <<summary, requests, uploads,
                                          transient>>
                      ELSE /\ should_download' = "True"
                           /\ requests' = requests \o d.requests
                           /\ \E t \in Transient(FailedRequest(d.requests,
                                                     fetch # "http")) :
                                 transient' = transient \cup t
                           /\ IF ~d.pdf_path
                              THEN UNCHANGED <<summary, uploads>>
                              ELSE /\ summary' = AfterPdfUpload(
                                          AfterExtraction(summary, extraction),
                                          upload)
                                   /\ uploads' =
                                          IF upload = "raise" THEN uploads
                                          ELSE Append(uploads, "pdf")
    /\ pc' = "returned"
    /\ UNCHANGED <<result, entries_data>>
    /\ UNCHANGED <<svcState, svc_error, guiVars, unitVars>>

----------------------------------------------------------------------------
\* StandaloneDutyService.process_mawb, after the runner returned

\* Python truth value of summary.get(k)
Truthy(d, k) == Get(d, k) \notin {"None", ""}

\* an upsert that carries the status of the runner's result
UpsertResultStatus(res) == res.status

\* the status the service passes to db.upsert_result on its normal path
UpsertStatus(res) == "success"

\* "Handle Excel file", db.upsert_result(status="success"), the return dict
SaveResult ==
    /\ pc = "returned"
    /\ \E upload \in UploadOutcomes, db_ok \in BOOLEAN :
          LET stored == /\ Truthy(summary, "excel_storage_path")
                        /\ Truthy(summary, "excel_download_url")
              again  == ~stored /\ result.download_path
          IN  IF again /\ upload = "raise"
              THEN /\ pc' = "except"
                   /\ svc_error' = "Failed to upload duty report to S3"
                   /\ UNCHANGED <<uploads, db, upsert_calls, ret>>
              ELSE /\ uploads' = IF again THEN Append(uploads, "excel")
                                 ELSE uploads
                   /\ upsert_calls' = Append(upsert_calls,
                                             UpsertStatus(result))
                   /\ IF db_ok
                      THEN /\ db' = [status |-> UpsertStatus(result),
                                     error_message |-> "None",
                                     summary |-> summary]
                           /\ ret' = [kind |-> "return", success |-> TRUE,
                                      status |-> "success",
                                      error |-> "None"]
                           /\ pc' = "done"
                           /\ svc_error' = svc_error
                      ELSE /\ pc' = "except"
                           /\ svc_error' = "upsert failed"
                           /\ UNCHANGED <<db, ret>>
    /\ UNCHANGED <<sections, checkbook_hawbs, local_session, session_cookies,
                   session_reused, login_calls,
                   session_saved>>
    /\ UNCHANGED <<summary, result, entries_data, should_download, requests,
                   logs, raised, transient>>
    /\ UNCHANGED <<guiVars, unitVars>>

\* an except clause that lets the exception out
Reraise(err) ==
    [kind |-> "raise", success |-> FALSE, status |-> "none", error |-> err]

\* the dict the except clause returns
FailureReturn(err) ==
    [kind |-> "return", success |-> FALSE, status |-> "failed", error |-> err]

\* except Exception as exc: db.upsert_result(status="failed"), failure dict
SaveFailedResult ==
    /\ pc = "except"
    /\ upsert_calls' = Append(upsert_calls, "failed")
    /\ \E db_ok \in BOOLEAN :
          IF db_ok
          THEN /\ db' = [status |-> "failed", error_message |-> svc_error,
                         summary |-> EmptyDict]
               /\ ret' = FailureReturn(svc_error)
               /\ pc' = "done"
          ELSE /\ db' = db
               /\ ret' = [kind |-> "raise", success |-> FALSE,
                          status |-> "none", error |-> "upsert failed"]
               /\ pc' = "raised"
    /\ UNCHANGED <<sections, checkbook_hawbs, local_session, session_cookies,
                   session_reused, login_calls,
                   session_saved, svc_error>>
    /\ UNCHANGED <<runVars, guiVars, unitVars>>

----------------------------------------------------------------------------
\* DutyRunnerWidget (gui/duty_runner.py).  Slots run one at a time on the GUI
\* thread; a ProcessingThread reports once, with finished or with error.

Mawbs == {"m1", "m2"}

MaxItems == 2    \* parsed_items is kept this short
MaxBlob == 2     \* items parse_mawb_input returns for one pasted blob
MaxThreads == 3  \* Start Processing is not clicked once this many ran

\* parse_mawb_input(input_text): a non-empty list of items, in line order
Blobs == UNION {[1..n -> Mawbs] : n \in 1..MaxBlob}

InSeq(x, seq) == \E i \in 1..Len(seq) : seq[i] = x

\* new_items = [item for item in parsed if item['mawb'] not in existing_mawbs]
NewItems(parsed, existing) ==
    SelectSeq(parsed, LAMBDA m : ~InSeq(m, existing))

\* _on_parse_clicked, with a broker and a format selected; it ends with
\* _update_items_table, which sets the Start button from parsed_items
ParseClicked ==
    /\ ~gui_crash
    /\ \E parsed \in Blobs :
          LET items == parsed_items \o NewItems(parsed, parsed_items)
          IN  /\ Len(items) <= MaxItems
              /\ parsed_items' = items
              /\ start_enabled' = (Len(items) > 0)
    /\ UNCHANGED <<session_results, current_processing_index, threads,
                   next_thread, completed, gui_crash>>
    /\ UNCHANGED <<svcVars, runVars, unitVars>>

\* _on_clear_clicked
ClearClicked ==
    /\ ~gui_crash
    /\ parsed_items' = <<>>
    /\ start_enabled' = FALSE
    /\ UNCHANGED <<session_results, current_processing_index, threads,
                   next_thread, completed, gui_crash>>
    /\ UNCHANGED <<svcVars, runVars, unitVars>>

\* ProcessingThread(...) for parsed_items[index], started
NewThread(items, index, n) == [id |-> n + 1, mawb |-> items[index + 1]]

\* _process_next_item with current_processing_index = index and
\* session_results = results: the widget state it leaves
ProcessNextItem(index, results) ==
    IF index >= Len(parsed_items)
    THEN \* _on_all_processing_complete
         /\ start_enabled' = TRUE
         /\ completed' = Append(completed, results)
         /\ UNCHANGED next_thread
    ELSE /\ next_thread' = next_thread + 1
         /\ UNCHANGED <<start_enabled, completed>>

ThreadsAfter(running, index) ==
    IF index >= Len(parsed_items) THEN running
    ELSE running \cup {NewThread(parsed_items, index, next_thread)}

\* _on_start_processing_clicked, with at least one section checked; the
\* button can be clicked only while it is enabled
StartProcessingClicked ==
    /\ ~gui_crash
    /\ start_enabled
    /\ parsed_items # <<>>
    /\ next_thread < MaxThreads
    /\ session_results' = <<>>
    /\ current_processing_index' = 0
    /\ start_enabled' = FALSE
    /\ next_thread' = next_thread + 1
    /\ threads' = ThreadsAfter(threads, 0)
    /\ UNCHANGED <<parsed_items, completed, gui_crash>>
    /\ UNCHANGED <<svcVars, runVars, unitVars>>

\* what process_mawb can hand to ProcessingThread.run: the success dict or
\* the failure dict (finished), or an exception (error)
Statuses == {"success", "failed"}

\* the entry _on_item_finished appends: result_dict of the worker's result
FinishedResult(thread, status) == <<[mawb |-> thread.mawb, status |-> status]>>

\* an error handler that records nothing
NoErrorResult(item) == <<>>

\* the entry _on_item_error appends: error_result
ErrorResult(item) == <<[mawb |-> item, status |-> "failed"]>>

\* thread.finished -> _on_item_finished
ItemFinished ==
    /\ ~gui_crash
    /\ \E thread \in threads, status \in Statuses :
          IF current_processing_index >= Len(parsed_items)
          THEN \* item = self.parsed_items[...] raises IndexError
               /\ gui_crash' = TRUE
               /\ threads' = threads \ {thread}
               /\ UNCHANGED <<session_results, current_processing_index,
                              next_thread, start_enabled, completed>>
          ELSE LET results == session_results \o
                                  FinishedResult(thread, status)
                   index   == current_processing_index + 1
               IN  /\ session_results' = results
                   /\ current_processing_index' = index
                   /\ threads' = ThreadsAfter(threads \ {thread}, index)
                   /\ ProcessNextItem(index, results)
                   /\ UNCHANGED gui_crash
    /\ UNCHANGED parsed_items
    /\ UNCHANGED <<svcVars, runVars, unitVars>>

\* thread.error -> _on_item_error; the index is advanced before
\* parsed_items is read
ItemError ==
    /\ ~gui_crash
    /\ \E thread \in threads :
          LET index == current_processing_index + 1
          IN  /\ current_processing_index' = index
              /\ IF index - 1 >= Len(parsed_items)
                 THEN /\ gui_crash' = TRUE
                      /\ threads' = threads \ {thread}
                      /\ UNCHANGED <<session_results, next_thread,
                                     start_enabled, completed>>
                 ELSE LET results == session_results \o
                                         ErrorResult(parsed_items[index])
                      IN  /\ session_results' = results
                          /\ threads' = ThreadsAfter(threads \ {thread}, index)
                          /\ ProcessNextItem(index, results)
                          /\ UNCHANGED gui_crash
    /\ UNCHANGED parsed_items
    /\ UNCHANGED <<svcVars, runVars, unitVars>>

----------------------------------------------------------------------------
\* NetChbDutyRunner.is_session_valid

\* what the two probes of the AMS search page can come back with
\*   cookies        the storage state holds cookies
\*   http           the GET raised, answered 200, or answered another status
\*   lName, pre     the 200 body has id="lName" (login form), id="pre" (AMS)
\*   login_url      the final URL contains "security" or "login"
\*   page           self.page is set
\*   goto_ok        page.goto and the wait after it did not raise
\*   lName_visible, pre_visible, page_login_url: the same three tests on the
\*                  page the browser loaded
ProbeResponses ==
    [cookies : BOOLEAN, http : {"raise", "200", "500"},
     lName : BOOLEAN, pre : BOOLEAN, login_url : BOOLEAN,
     page : BOOLEAN, goto_ok : BOOLEAN,
     lName_visible : BOOLEAN, pre_visible : BOOLEAN,
     page_login_url : BOOLEAN]

NoProbe == [cookies |-> FALSE, http |-> "none"]

\* a probe that asks for the AMS anchor and the absence of the login anchor
AnchorsOnly(r) ==
    IF r.cookies /\ r.http = "200" /\ r.pre /\ ~r.lName THEN "True"
    ELSE "False"

\* is_session_valid: "True", "False", or "raise" (Page not initialized)
is_session_valid(r) ==
    LET browser ==
            IF ~r.page THEN "raise"
            ELSE IF ~r.goto_ok THEN "False"
            ELSE IF r.lName_visible THEN "False"
            ELSE IF r.pre_visible THEN "True"
            ELSE IF r.page_login_url THEN "False"
            ELSE "True"
    IN  IF r.cookies /\ r.http = "200"
        THEN IF r.lName THEN "False"
             ELSE IF r.pre THEN "True"
             ELSE IF r.login_url THEN "False"
             ELSE "True"
        ELSE browser

\* the Portal answers the probes of one call
ReceiveProbe ==
    /\ probe = NoProbe \/ is_valid # "unset"
    /\ probe' \in ProbeResponses
    /\ is_valid' = "unset"
    /\ UNCHANGED <<svcVars, runVars, guiVars, storeVars, laterVars>>

\* the call comes back
IsSessionValid ==
    /\ probe # NoProbe
    /\ is_valid = "unset"
    /\ is_valid' = is_session_valid(probe)
    /\ UNCHANGED probe
    /\ UNCHANGED <<svcVars, runVars, guiVars, storeVars, laterVars>>

----------------------------------------------------------------------------
\* LocalSessionStorage.save_session and load_session on the file of one
\* broker.  local_session is the file: "none" (no file), "empty" (just
\* truncated), "partial" (some of the JSON text) or the session state it
\* holds completely.

SessionStates == {"old", "new", "newer"}

\* everything but the file, the save and the load in progress
storeFrame == <<pc, sections, checkbook_hawbs, session_cookies,
                session_reused, login_calls, session_saved, svc_error, db,
                upsert_calls, ret, runVars, guiVars, probe, is_valid,
                laterVars>>

\* save_session up to open(session_path, 'w'), which truncates the file
SaveSessionOpen ==
    /\ saving = "None"
    /\ \E session_state \in SessionStates \ {local_session} :
          saving' = session_state
    /\ previous' = load_session(local_session)
    /\ local_session' = "empty"
    /\ loaded' = "unset"
    /\ UNCHANGED load_pc
    /\ UNCHANGED storeFrame

\* json.dump has written the first part of the text
SaveSessionWrite ==
    /\ saving # "None"
    /\ local_session = "empty"
    /\ local_session' = "partial"
    /\ UNCHANGED <<saving, previous, load_pc, loaded>>
    /\ UNCHANGED storeFrame

\* json.dump wrote everything and the file was closed; returns True
SaveSessionDump ==
    /\ saving # "None"
    /\ local_session' = saving
    /\ saving' = "None"
    /\ UNCHANGED <<previous, load_pc, loaded>>
    /\ UNCHANGED storeFrame

\* json.dump raised (save_session returns False) or the process was
\* stopped: what was written so far stays in the file
SaveSessionFail ==
    /\ saving # "None"
    /\ saving' = "None"
    /\ UNCHANGED <<local_session, previous, load_pc, loaded>>
    /\ UNCHANGED storeFrame

\* load_session up to session_path.exists()
LoadSessionExists ==
    /\ load_pc = "idle"
    /\ IF local_session = "none"
       THEN loaded' = "None" /\ load_pc' = load_pc
       ELSE loaded' = "unset" /\ load_pc' = "reading"
    /\ UNCHANGED <<local_session, saving, previous>>
    /\ UNCHANGED storeFrame

\* open(session_path, 'r') and json.load; an exception gives None
LoadSessionRead ==
    /\ load_pc = "reading"
    /\ loaded' = load_session(local_session)
    /\ load_pc' = "idle"
    /\ UNCHANGED <<local_session, saving, previous>>
    /\ UNCHANGED storeFrame

\* StandaloneDutyService.cancel_batch while an item of the batch is being
\* processed: update_batch_status(batch_id, "cancelled") on the batch row
cancel_batch ==
    /\ threads # {}
    /\ batch_status # "cancelled"
    /\ batch_status' = "cancelled"
    /\ UNCHANGED <<svcVars, runVars, guiVars, probe, is_valid, storeVars,
                   execVars, parseVars, moreVars>>

\* NetChbDutyDatabaseManager._execute on the query of upsert_result

max_retries == 3

MaxFails == 4

\* str(exc) of the exceptions query.execute() can raise
Errors == {"Resource temporarily unavailable", "connection reset",
           "permission denied"}

is_resource_error(exc) == exc = "Resource temporarily unavailable"

is_connection_error(exc) == exc = "connection reset"

\* the queries: 0..MaxFails failing executions, then successful ones
Queries == UNION {[1..n -> Errors] : n \in 0..MaxFails}

NoQuery == <<"None">>

\* a retry condition that ignores the attempt number
RetryTransient(exc, n) == is_resource_error(exc) \/ is_connection_error(exc)

\* the condition under which the except block sleeps and continues
ShouldRetry(exc, n) ==
    (is_resource_error(exc) \/ is_connection_error(exc)) /\ n < max_retries - 1

\* on_conflict="mawb,broker_id,format_id": the row is inserted or replaced
Upserted(n) == 1

execFrame == <<svcVars, runVars, guiVars, probe, is_valid, storeVars,
               batch_status, parseVars, moreVars>>

\* upsert_result builds the query and calls _execute(query, ..., default=[])
ExecuteCalled ==
    /\ exec_query = NoQuery \/ exec_ret # "unset"
    /\ \E query \in Queries : exec_query' = query
    /\ attempt' = 0
    /\ executions' = 0
    /\ exec_ret' = "unset"
    /\ UNCHANGED <<table_rows, supabase>>
    /\ UNCHANGED execFrame

\* one pass of the loop: query.execute() and, when it raises, the except
\* block.  A request that ended with a connection error may have reached
\* the database or not.
ExecuteAttempt ==
    /\ exec_query # NoQuery
    /\ exec_ret = "unset"
    /\ IF attempt >= max_retries
       THEN \* range(max_retries) is exhausted
            /\ exec_ret' = "default"
            /\ UNCHANGED <<attempt, executions, table_rows, supabase>>
       ELSE IF executions >= Len(exec_query)
       THEN \* return data or default
            /\ exec_ret' = "data"
            /\ executions' = executions + 1
            /\ table_rows' = Upserted(table_rows)
            /\ UNCHANGED <<attempt, supabase>>
       ELSE LET exc == exec_query[executions + 1]
            IN  /\ executions' = executions + 1
                /\ IF is_connection_error(exc)
                   THEN table_rows' \in {table_rows, Upserted(table_rows)}
                   ELSE table_rows' = table_rows
                /\ IF ShouldRetry(exc, attempt)
                   THEN /\ attempt' = attempt + 1
                        /\ supabase' = IF is_connection_error(exc)
                                       THEN "recreated" ELSE supabase
                        /\ exec_ret' = "unset"
                   ELSE /\ exec_ret' = "raise"
                        /\ UNCHANGED <<attempt, supabase>>
    /\ UNCHANGED exec_query
    /\ UNCHANGED execFrame

\* parse_mawb_input of utils/mawb_parser.py (the GUI) and of
\* service/netchb_duty/input_parser.py (the service).
\* A string without tab and newline is a chunk: tokens joined by "," or by
\* " ", or one token.  A line is the sequence of its chunks between tabs.

MaxLines == 3

\* the token in the MAWB position: 11 digits in a row, 11 digits with a
\* dash, too few digits
MawbTokens == {"23594731221", "999-38649026", "1234"}

\* "".join(ch for ch in tok if ch.isdigit())
digits_of(tok) ==
    CASE tok = "23594731221"  -> "23594731221"
      [] tok = "999-38649026" -> "99938649026"
      [] tok = "1234"         -> "1234"
      [] tok = "1325"         -> "1325"
      [] tok = "M3"           -> "3"
      [] OTHER                -> ""

\* len() of a digit string
DigitLen(d) ==
    CASE d = ""                 -> 0
      [] d = "3"                -> 1
      [] d \in {"1234", "1325"} -> 4
      [] OTHER                  -> 11

\* re.search(r'\d{11}', tok)
HasRun11(tok) == tok = "23594731221"

\* the digits of a chunk: the digit strings of its tokens, in order
RECURSIVE Digits(_)
Digits(toks) ==
    IF toks = <<>> THEN <<>>
    ELSE (IF digits_of(toks[1]) = "" THEN <<>> ELSE <<digits_of(toks[1])>>)
         \o Digits(Tail(toks))

RECURSIVE DigitCount(_)
DigitCount(ds) ==
    IF ds = <<>> THEN 0 ELSE DigitLen(ds[1]) + DigitCount(Tail(ds))

Cell(tok) == [sep |-> "", toks |-> <<tok>>]

TabLine(toks) == [i \in 1..Len(toks) |-> Cell(toks[i])]

Joined(sep, toks) == <<[sep |-> sep, toks |-> toks]>>

\* the formats of the docstring, with tok as the MAWB
LinesOf(tok) ==
    {TabLine(<<"JFK", "YDH", "M3", "1325", tok>>),
     TabLine(<<"ORD", "MZZ", tok>>),
     Joined(",", <<"JFK", "YDH", "M3", "1325", tok>>),
     Joined(",", <<"ORD", "MZZ", tok>>),
     Joined(" ", <<tok, "ORD", "MZZ">>),
     <<Cell(tok)>>}

InputLines == UNION {LinesOf(tok) : tok \in MawbTokens}

Texts == UNION {[1..n -> InputLines] : n \in 0..MaxLines}

NoParse == [raised |-> FALSE, items |-> <<>>]

\* parts = [p.strip() for p in line.split(sep)]
Columns(line) ==
    IF Len(line) > 1 THEN line
    ELSE [i \in 1..Len(line[1].toks) |-> Cell(line[1].toks[i])]

\* len(digits) == 11, the test of the GUI parser
ElevenDigits(chunk) == DigitCount(Digits(chunk.toks)) = 11

\* re.search(r'\d{11}', part), the test of the service parser
ElevenInARow(chunk) == \E i \in 1..Len(chunk.toks) : HasRun11(chunk.toks[i])

\* the 11-digit test of the parser called
IsMawb(which, chunk) ==
    IF which = "gui" THEN ElevenDigits(chunk) ELSE ElevenInARow(chunk)

Least(S) == CHOOSE i \in S : \A j \in S : i <= j

\* the tab and the comma branch: mawb_raw, None, or continue
Separated(parts, which) ==
    IF Len(parts) >= 5 THEN
        IF IsMawb(which, parts[5]) THEN [kind |-> "raw", raw |-> parts[5]]
        ELSE [kind |-> "None", raw |-> Cell("")]
    ELSE IF Len(parts) >= 3 THEN [kind |-> "raw", raw |-> parts[3]]
    ELSE IF Len(parts) = 2 THEN
        IF IsMawb(which, parts[1]) THEN [kind |-> "raw", raw |-> parts[1]]
        ELSE IF IsMawb(which, parts[2]) THEN [kind |-> "raw", raw |-> parts[2]]
        ELSE [kind |-> "continue", raw |-> Cell("")]
    ELSE [kind |-> "raw", raw |-> parts[1]]

\* the whitespace branch: the first part that is a MAWB, else parts[0]
Spaced(parts, which) ==
    LET found == {i \in 1..Len(parts) : IsMawb(which, parts[i])}
    IN  [kind |-> "raw",
         raw  |-> IF found # {} THEN parts[Least(found)] ELSE parts[1]]

\* the separator detection of one line
MawbRaw(line, which) ==
    LET chunk == line[1]
    IN  IF Len(line) > 1 THEN Separated(line, which)
        ELSE IF chunk.sep = "," THEN Separated(Columns(line), which)
        ELSE IF chunk.sep = " " /\ Len(chunk.toks) >= 3
        THEN Spaced(Columns(line), which)
        ELSE [kind |-> "raw", raw |-> chunk]

\* normalize_mawb inside try / except ValueError: one item or none
Normalized(raw) ==
    LET digits == Digits(raw.toks)
    IN  IF DigitCount(digits) = 11 THEN <<[mawb |-> digits]>> ELSE <<>>

\* the loop body of the GUI parser: "if mawb_raw is None: continue"
GuiLine(line) ==
    LET m == MawbRaw(line, "gui")
    IN  IF m.kind = "raw" THEN Normalized(m.raw) ELSE <<>>

\* '\t'.join(all_lines[a:b]) of lines without tabs
Join(all_lines, a, b) == [k \in 1..(b - a + 1) |-> all_lines[a + k - 1][1]]

\* the while loop of the Excel paste reconstruction, from index i on
RECURSIVE Reconstruct(_, _)
Reconstruct(all_lines, i) ==
    LET n == Len(all_lines)
        Is11(j) == ElevenDigits(all_lines[j + 1][1])
        last == IF i + 10 < n THEN i + 10 ELSE n
        ahead == {j \in i..(last - 1) : Is11(j) /\ j - i >= 2}
    IN  IF i >= n THEN <<>>
        ELSE IF i + 4 < n /\ Is11(i + 4) THEN
            <<Join(all_lines, i + 1, i + 5)>> \o Reconstruct(all_lines, i + 5)
        ELSE IF i + 2 < n /\ Is11(i + 2) THEN
            <<Join(all_lines, i + 1, i + 3)>> \o Reconstruct(all_lines, i + 3)
        ELSE IF ahead # {} THEN
            <<Join(all_lines, i + 1, Least(ahead) + 1)>>
                \o Reconstruct(all_lines, Least(ahead) + 1)
        ELSE Reconstruct(all_lines, i + 1)

RECURSIVE GuiLines(_)
GuiLines(lines) ==
    IF lines = <<>> THEN <<>>
    ELSE GuiLine(lines[1]) \o GuiLines(Tail(lines))

\* parse_mawb_input of utils/mawb_parser.py
GuiParse(t) ==
    LET has_tabs == \E i \in 1..Len(t) : Len(t[i]) > 1
        reconstructed_lines ==
            IF ~has_tabs /\ Len(t) > 1 THEN Reconstruct(t, 0) ELSE <<>>
        lines == IF reconstructed_lines # <<>> THEN reconstructed_lines ELSE t
    IN  [raised |-> FALSE, items |-> GuiLines(lines)]

\* parse_mawb_input of input_parser.py: normalize_mawb(None) raises
\* TypeError, which "except ValueError" does not catch
RECURSIVE ServiceLines(_)
ServiceLines(lines) ==
    IF lines = <<>> THEN NoParse
    ELSE LET m    == MawbRaw(lines[1], "service")
             rest == ServiceLines(Tail(lines))
         IN  IF m.kind = "None" THEN [raised |-> TRUE, items |-> <<>>]
             ELSE IF rest.raised THEN rest
             ELSE [raised |-> FALSE,
                   items  |-> (IF m.kind = "raw" THEN Normalized(m.raw)
                               ELSE <<>>) \o rest.items]

ServiceParse(t) == ServiceLines(t)

parseFrame == <<svcVars, runVars, guiVars, probe, is_valid, storeVars,
                batch_status, execVars, moreVars>>

\* the user pastes a text
PasteText ==
    /\ parser = "none"
    /\ text' \in Texts
    /\ parser' = "pasted"
    /\ UNCHANGED parse_ret
    /\ UNCHANGED parseFrame

\* _on_parse_clicked: parsed = parse_mawb_input(input_text)
ParseGui ==
    /\ parser = "pasted"
    /\ parse_ret' = GuiParse(text)
    /\ parser' = "gui"
    /\ UNCHANGED text
    /\ UNCHANGED parseFrame

\* the service's parse_mawb_input on the same text
ParseService ==
    /\ parser = "pasted"
    /\ parse_ret' = ServiceParse(text)
    /\ parser' = "service"
    /\ UNCHANGED text
    /\ UNCHANGED parseFrame

\* parse_mawb_input of utils/mawb_parser.py with the fields of its items
\* and with its strip() calls, which matter for lines with empty columns

MaxRows == 2

\* None, and the empty string that "x if x else None" turns into None
NoValue == [sep |-> "", toks |-> <<>>]

FieldOf(chunk) == IF chunk = Cell("") THEN NoValue ELSE chunk

\* str.strip() on a line: empty columns at its ends go with their tabs
RECURSIVE LStrip(_)
LStrip(line) ==
    IF line = <<>> THEN <<>>
    ELSE IF line[1] = Cell("") THEN LStrip(Tail(line))
    ELSE line

RECURSIVE RStrip(_)
RStrip(line) ==
    IF line = <<>> THEN <<>>
    ELSE IF line[Len(line)] = Cell("") THEN RStrip(SubSeq(line, 1, Len(line) - 1))
    ELSE line

Strip(line) == RStrip(LStrip(line))

\* airport_code, customer and checkbook_hawbs of the tab and comma branches
SeparatedFields(parts) ==
    IF Len(parts) >= 5 THEN
        [airport_code    |-> FieldOf(parts[1]),
         customer        |-> FieldOf(parts[2]),
         checkbook_hawbs |-> FieldOf(parts[4])]
    ELSE IF Len(parts) >= 3 THEN
        [airport_code    |-> FieldOf(parts[1]),
         customer        |-> FieldOf(parts[2]),
         checkbook_hawbs |-> NoValue]
    ELSE IF Len(parts) = 2 THEN
        [airport_code    |-> IF ElevenDigits(parts[1])
                             THEN (IF ElevenDigits(parts[2]) THEN NoValue
                                   ELSE FieldOf(parts[2]))
                             ELSE FieldOf(parts[1]),
         customer        |-> NoValue,
         checkbook_hawbs |-> NoValue]
    ELSE [airport_code |-> NoValue, customer |-> NoValue,
          checkbook_hawbs |-> NoValue]

\* the same of the whitespace branch
SpacedFields(parts) ==
    LET found == {i \in 1..Len(parts) : ElevenDigits(parts[i])}
        idx   == Least(found)
    IN  IF found = {} THEN
            [airport_code    |-> IF Len(parts) > 1 THEN FieldOf(parts[2])
                                 ELSE NoValue,
             customer        |-> IF Len(parts) > 2 THEN FieldOf(parts[3])
                                 ELSE NoValue,
             checkbook_hawbs |-> NoValue]
        ELSE IF Len(parts) >= 5 /\ idx = 5 THEN
            [airport_code    |-> FieldOf(parts[1]),
             customer        |-> FieldOf(parts[2]),
             checkbook_hawbs |-> FieldOf(parts[4])]
        ELSE
            [airport_code    |-> IF idx >= 2 THEN FieldOf(parts[1])
                                 ELSE NoValue,
             customer        |-> IF idx >= 3 THEN FieldOf(parts[2])
                                 ELSE NoValue,
             checkbook_hawbs |-> NoValue]

GuiFields(line) ==
    LET chunk == line[1]
    IN  IF Len(line) > 1 THEN SeparatedFields(line)
        ELSE IF chunk.sep = "," THEN SeparatedFields(Columns(line))
        ELSE IF chunk.sep = " " /\ Len(chunk.toks) >= 3
        THEN SpacedFields(Columns(line))
        ELSE [airport_code |-> NoValue, customer |-> NoValue,
              checkbook_hawbs |-> NoValue]

\* the loop body: line.strip(), the separator branches, result_dict
GuiItem(raw_line) ==
    LET line   == Strip(raw_line)
        m      == MawbRaw(line, "gui")
        digits == Digits(m.raw.toks)
        fields == GuiFields(line)
    IN  IF line = <<>> THEN <<>>
        ELSE IF m.kind # "raw" \/ DigitCount(digits) # 11 THEN <<>>
        ELSE <<[mawb            |-> digits,
                airport_code    |-> fields.airport_code,
                customer        |-> fields.customer,
                checkbook_hawbs |-> fields.checkbook_hawbs]>>

RECURSIVE GuiItems(_)
GuiItems(lines) ==
    IF lines = <<>> THEN <<>>
    ELSE GuiItem(lines[1]) \o GuiItems(Tail(lines))

\* text.strip(): the first line loses its leading empty columns, the last
\* line its trailing ones
TextStrip(t) ==
    [i \in 1..Len(t) |->
        LET l == IF i = 1 THEN LStrip(t[i]) ELSE t[i]
        IN  IF i = Len(t) THEN RStrip(l) ELSE l]

\* parse_mawb_input of utils/mawb_parser.py on lines that may hold empty
\* columns
GuiParseItems(t) ==
    LET text_stripped == TextStrip(t)
        has_tabs  == \E i \in 1..Len(t) : Len(text_stripped[i]) > 1
        all_lines == SelectSeq([i \in 1..Len(t) |-> Strip(t[i])],
                               LAMBDA l : l # <<>>)
        reconstructed_lines ==
            IF ~has_tabs /\ Len(all_lines) > 1
            THEN Reconstruct(all_lines, 0) ELSE <<>>
        lines == IF reconstructed_lines # <<>> THEN reconstructed_lines
                 ELSE text_stripped
    IN  GuiItems(lines)

\* the items of the round trip: an 11-digit mawb and three optional fields
TripItems ==
    [mawb            : {<<"23594731221">>},
     airport_code    : {NoValue, Cell("JFK")},
     customer        : {NoValue, Cell("YDH")},
     checkbook_hawbs : {NoValue, Cell("1325")}]

\* what is written into the Broker column
Brokers == {"", "M3"}

Column(value) == IF value = NoValue THEN Cell("") ELSE value

\* one tab-joined line "Port, Customer, Broker, HAWBs, Master"
SerializeItem(item, broker) ==
    <<Column(item.airport_code), Column(item.customer), Cell(broker),
      Column(item.checkbook_hawbs), Cell(item.mawb[1])>>

\* nothing written yet, nothing parsed yet
NotSerialized == <<<<NoValue>>>>

NotParsed ==
    <<[mawb |-> <<>>, airport_code |-> NoValue, customer |-> NoValue,
       checkbook_hawbs |-> NoValue]>>

tripFrame == <<svcVars, runVars, guiVars, probe, is_valid, storeVars,
               batch_status, execVars, parseVars, payloadVars, keyVars,
               otpVars, progressVars, excelVars>>

\* a list of items is written out
Serialize ==
    /\ serialized = NotSerialized
    /\ \E n \in 0..MaxRows :
          \E items \in [1..n -> TripItems], brokers \in [1..n -> Brokers] :
             /\ items_in' = items
             /\ serialized' =
                   [i \in 1..n |-> SerializeItem(items[i], brokers[i])]
    /\ UNCHANGED items_out
    /\ UNCHANGED tripFrame

\* the lines are parsed again
ParseSerialized ==
    /\ serialized # NotSerialized
    /\ items_out = NotParsed
    /\ items_out' = GuiParseItems(serialized)
    /\ UNCHANGED <<items_in, serialized>>
    /\ UNCHANGED tripFrame

\* NetChbDutyRunner._build_custom_report_payload.  Dates are day numbers;
\* oldest_entry is a midnight, so (today - oldest_entry).days is the
\* difference of the day numbers whatever the time of day.

MaxDay == 28

MaxOldest == 2

DateWindow == 25

\* strftime("%m%d%y")
Mmddyy(day) == ToString(day)

\* template_payload["defaultValues"]: filter fields of the report form
DefaultValues ==
    UNION {[keys -> {""}] : keys \in SUBSET {"begin", "end", "entryStatus"}}

FieldLists == {"headerFields", "manifestFields", "invoiceFields",
               "lineFields", "tariffFields"}

\* template_payload: its defaultValues and its non-empty field lists
TemplatePayloads == [defaultValues : DefaultValues, lists : SUBSET FieldLists]

NoArgs == [template_payload |-> [defaultValues |-> EmptyDict, lists |-> {}],
           oldest_entry |-> -1, today |-> -1]

_build_custom_report_payload(template_payload, oldest_entry, today) ==
    LET days_old == today - oldest_entry
        end_date == IF days_old >= DateWindow THEN oldest_entry + DateWindow
                    ELSE today
        dated    == [k \in {"templateId", "begin", "end", "masterBill"} |->
                        CASE k = "templateId" -> "0"
                          [] k = "begin"      -> Mmddyy(oldest_entry)
                          [] k = "end"        -> Mmddyy(end_date)
                          [] OTHER            -> "mawb"]
        defaulted == Update(dated, template_payload.defaultValues)
    IN  Update(defaulted, [k \in template_payload.lists |-> "fields"])

payloadFrame == <<svcVars, runVars, guiVars, probe, is_valid, storeVars,
                  batch_status, execVars, parseVars, tripVars, keyVars,
                  otpVars, progressVars, excelVars>>

\* _process_custom_report_http builds the form body
BuildPayload ==
    /\ report_args = NoArgs
    /\ \E template_payload \in TemplatePayloads,
          oldest_entry \in 0..MaxOldest, today \in 0..MaxDay :
          /\ report_args' = [template_payload |-> template_payload,
                             oldest_entry |-> oldest_entry, today |-> today]
          /\ form_data' = _build_custom_report_payload(
                              template_payload, oldest_entry, today)
    /\ UNCHANGED payloadFrame

\* Object-store keys: NetChbDutyStorageManager.upload_excel and upload_pdf,
\* the paths StandaloneDutyService.process_mawb returns, and the result
\* DutyRunnerWidget._on_item_finished records.  A key is its folder, the
\* parts of the file name (joined by one space) and its ending.

KeyMawbs == {"23594731221", "1234"}

AirportCodes == {"", "YDH", " YDH"}

Customers == {"", "1325", "13/25"}

TemplateNames == {"FTE Match", "Shoaib Match"}

TemplateIdentifiers == {"fte-match", "shoaib-match"}

NoKey == [folder |-> "", parts |-> <<>>, ending |-> ""]

\* mawb_clean[:3] + "-" + mawb_clean[3:] for 11 characters
FormattedMawb(mawb) ==
    IF mawb = "23594731221" THEN "235-94731221" ELSE mawb

\* value.strip().replace("/", "-").replace("\\", "-")
Safe(value) ==
    CASE value = " YDH"  -> "YDH"
      [] value = "13/25" -> "13-25"
      [] OTHER           -> value

\* parts = [formatted_mawb] plus the safe airport code and customer
SafeParts(mawb, airport_code, customer) ==
    <<FormattedMawb(mawb)>>
        \o (IF airport_code # "" /\ Safe(airport_code) # ""
            THEN <<Safe(airport_code)>> ELSE <<>>)
        \o (IF customer # "" /\ Safe(customer) # ""
            THEN <<Safe(customer)>> ELSE <<>>)

\* "shoaib" in template_name.lower()
IsShoaib(name) == name \in {"Shoaib Match", "shoaib-match"}

\* the key upload_excel writes; template_name "" stands for None
upload_excel(mawb, airport_code, customer, template_name) ==
    [folder |-> "customizable-reports",
     parts  |-> SafeParts(mawb, airport_code, customer),
     ending |-> IF template_name # "" /\ IsShoaib(template_name)
                THEN "_V2.xlsx" ELSE ".xlsx"]

\* the key upload_pdf writes
upload_pdf(mawb, airport_code, customer) ==
    [folder |-> "7501-batch-pdfs",
     parts  |-> SafeParts(mawb, airport_code, customer),
     ending |-> ".pdf"]

\* outcome of an upload the runner may make: not reached, stored with a
\* presigned URL, stored without one, or failed
StoreOutcomes == {"none", "url", "no_url", "raise"}

NoItem == [mawb |-> "", airport_code |-> "", customer |-> "",
           template_name |-> "", template_identifier |-> "",
           excel |-> "none", pdf |-> "none"]

NoRunSummary == [download_path |-> FALSE, excel_storage_path |-> NoKey,
                 excel_download_url |-> FALSE, pdf_url |-> "N/A"]

NoItemResult == [status |-> "none", artifact_path |-> NoKey,
                 pdf_path |-> NoKey, airport_code |-> "", customer |-> ""]

keyFrame == <<svcVars, runVars, guiVars, probe, is_valid, storeVars,
              batch_status, execVars, parseVars, tripVars, payloadVars,
              otpVars, progressVars, excelVars>>

\* NetChbDutyRunner.process_mawb as far as the store goes: the Custom Report
\* stage uploads the Excel with no airport code and no customer, the PDF
\* stage uploads the PDF with both
RunnerStores ==
    /\ key_pc = "idle"
    /\ \E mawb \in KeyMawbs, airport_code \in AirportCodes,
          customer \in Customers, name \in TemplateNames,
          ident \in TemplateIdentifiers, excel \in StoreOutcomes,
          pdf \in StoreOutcomes :
          LET excel_key == upload_excel(mawb, "", "",
                               IF IsShoaib(ident) THEN "Shoaib Match" ELSE "")
              pdf_key   == upload_pdf(mawb, airport_code, customer)
          IN  /\ key_item' = [mawb |-> mawb, airport_code |-> airport_code,
                              customer |-> customer, template_name |-> name,
                              template_identifier |-> ident,
                              excel |-> excel, pdf |-> pdf]
              /\ s3_keys' =
                    (IF excel \in {"url", "no_url"} THEN {excel_key} ELSE {})
                    \cup (IF pdf \in {"url", "no_url"} THEN {pdf_key} ELSE {})
              /\ run_summary' =
                    [download_path |-> excel # "none",
                     excel_storage_path |->
                         IF excel \in {"url", "no_url"} THEN excel_key
                         ELSE NoKey,
                     excel_download_url |-> excel = "url",
                     pdf_url |-> CASE pdf = "none" -> "N/A"
                                   [] pdf = "url"  -> "url"
                                   [] OTHER        -> ""]
    /\ key_pc' = "ran"
    /\ item_result' = item_result
    /\ UNCHANGED keyFrame

\* the path process_mawb rebuilds for the PDF: parts = [formatted_mawb]
RebuiltPdfPath(mawb) ==
    [folder |-> "7501-batch-pdfs", parts |-> <<FormattedMawb(mawb)>>,
     ending |-> ".pdf"]

\* StandaloneDutyService.process_mawb after the runner returned
ServiceReturns ==
    /\ key_pc = "ran"
    /\ \E upload \in {"url", "no_url", "raise"} :
          LET stored == /\ run_summary.excel_storage_path # NoKey
                        /\ run_summary.excel_download_url
              again  == ~stored /\ run_summary.download_path
              key    == upload_excel(key_item.mawb, key_item.airport_code,
                                     key_item.customer,
                                     key_item.template_name)
              pdf_url == run_summary.pdf_url
          IN  IF again /\ upload = "raise"
              THEN /\ item_result' = [NoItemResult EXCEPT !.status = "failed"]
                   /\ s3_keys' = s3_keys
              ELSE /\ s3_keys' = IF again THEN s3_keys \cup {key} ELSE s3_keys
                   /\ item_result' =
                         [status        |-> "success",
                          artifact_path |->
                              IF stored THEN run_summary.excel_storage_path
                              ELSE IF again THEN key ELSE NoKey,
                          pdf_path      |->
                              IF pdf_url \notin {"", "N/A"}
                              THEN RebuiltPdfPath(key_item.mawb) ELSE NoKey,
                          airport_code  |-> key_item.airport_code,
                          customer      |-> key_item.customer]
    /\ key_pc' = "returned"
    /\ UNCHANGED <<key_item, run_summary>>
    /\ UNCHANGED keyFrame

\* the path _on_item_finished rebuilds: airport code and customer as they are
GuiPdfPath(mawb, airport_code, customer) ==
    [folder |-> "7501-batch-pdfs",
     parts  |-> <<FormattedMawb(mawb)>>
                    \o (IF airport_code # "" THEN <<airport_code>> ELSE <<>>)
                    \o (IF customer # "" THEN <<customer>> ELSE <<>>),
     ending |-> ".pdf"]

\* DutyRunnerWidget._on_item_finished: result_dict is result["result"], and
\* final_result.update(result) writes the top-level pdf_path, artifact_path,
\* airport_code and customer of the service's return over it
KeyItemFinished ==
    /\ key_pc = "returned"
    /\ item_result.status = "success"
    /\ LET result_dict ==
               IF run_summary.pdf_url \notin {"", "N/A"}
                  /\ item_result.pdf_path = NoKey
               THEN [item_result EXCEPT
                        !.pdf_path = GuiPdfPath(key_item.mawb,
                                                item_result.airport_code,
                                                item_result.customer)]
               ELSE item_result
       IN  item_result' = [result_dict EXCEPT
                              !.pdf_path = item_result.pdf_path,
                              !.artifact_path = item_result.artifact_path]
    /\ key_pc' = "finished"
    /\ UNCHANGED <<key_item, s3_keys, run_summary>>
    /\ UNCHANGED keyFrame

\* DutyRunnerWidget._on_item_error: the failed item is recorded without paths
KeyItemError ==
    /\ key_pc = "returned"
    /\ item_result.status = "failed"
    /\ key_pc' = "finished"
    /\ UNCHANGED <<key_item, s3_keys, run_summary, item_result>>
    /\ UNCHANGED keyFrame

\* OTPManager.get_fresh_otp.  The clock counts whole seconds and moves on
\* its own between any two steps of the call.  A TOTP code is written as the
\* number of the period it belongs to.

MaxClock == 100

period == 30

max_wait == 35

\* min_seconds_remaining of the calls
MinSeconds == {5, 29}

NoCode == -1

NoCall == [uri |-> FALSE, min_seconds_remaining |-> 0]

\* pyotp's TOTP.now(): the code of the period the clock is in
TotpNow(t) == t \div period

otpFrame == <<svcVars, runVars, guiVars, probe, is_valid, storeVars,
              batch_status, execVars, parseVars, tripVars, payloadVars,
              keyVars, progressVars, excelVars>>

\* get_fresh_otp is called; an empty otp_uri returns None at once
GetFreshOtp ==
    /\ otp_pc = "idle"
    /\ \E uri \in BOOLEAN, n \in MinSeconds, t \in 0..(period - 1) :
          /\ otp_call' = [uri |-> uri, min_seconds_remaining |-> n]
          /\ clock' = t
          /\ otp_pc' = IF uri THEN "loop" ELSE "returned"
    /\ waited' = 0
    /\ UNCHANGED <<current_code, otp_ret>>
    /\ UNCHANGED otpFrame

\* while waited < max_wait: get_otp_with_timing computes current_code
ComputeCode ==
    /\ otp_pc = "loop"
    /\ IF waited < max_wait
       THEN /\ current_code' = TotpNow(clock)
            /\ otp_pc' = "timing"
       ELSE /\ current_code' = current_code
            /\ otp_pc' = "fallback"
    /\ UNCHANGED <<otp_call, clock, waited, otp_ret>>
    /\ UNCHANGED otpFrame

\* get_otp_with_timing reads the time for seconds_remaining; get_fresh_otp
\* returns the code or sleeps seconds_remaining + 1
ReadTime ==
    /\ otp_pc = "timing"
    /\ LET seconds_remaining == period - (clock % period)
           sleep_time == seconds_remaining + 1
       IN  IF seconds_remaining >= otp_call.min_seconds_remaining
           THEN /\ otp_ret' = current_code
                /\ otp_pc' = "returned"
                /\ UNCHANGED <<clock, waited>>
           ELSE /\ clock' = clock + sleep_time
                /\ waited' = waited + sleep_time
                /\ otp_pc' = "loop"
                /\ otp_ret' = otp_ret
    /\ UNCHANGED <<otp_call, current_code>>
    /\ UNCHANGED otpFrame

\* the fallback after the loop: return get_current_otp(otp_uri)
Fallback ==
    /\ otp_pc = "fallback"
    /\ otp_ret' = TotpNow(clock)
    /\ otp_pc' = "returned"
    /\ UNCHANGED <<otp_call, clock, current_code, waited>>
    /\ UNCHANGED otpFrame

\* a second passes while the call is running
Tick ==
    /\ otp_pc \in {"loop", "timing", "fallback"}
    /\ clock < MaxClock
    /\ clock' = clock + 1
    /\ UNCHANGED <<otp_pc, otp_call, current_code, waited, otp_ret>>
    /\ UNCHANGED otpFrame

\* DutyRunnerWidget._on_progress

MaxBatch == 5

NoProgress == [total_items |-> 0, current_processing_index |-> 0,
               percentage |-> 0, set |-> FALSE]

\* the pairs <<percentage, total_items>>, total_items up to 7, for which the
\* double value of (percentage / 100) * (1 / total_items) * 100 lies just
\* below the whole number percentage / total_items, so that int() gives one
\* less than the quotient
FloatShort ==
    {<<29, 1>>, <<57, 1>>, <<58, 1>>, <<58, 2>>, <<3, 3>>, <<6, 3>>,
     <<12, 3>>, <<21, 3>>, <<24, 3>>, <<42, 3>>, <<48, 3>>, <<57, 3>>,
     <<84, 3>>, <<87, 3>>, <<96, 3>>, <<99, 3>>, <<35, 5>>, <<70, 5>>,
     <<6, 6>>, <<12, 6>>, <<24, 6>>, <<42, 6>>, <<48, 6>>, <<84, 6>>,
     <<96, 6>>, <<49, 7>>, <<98, 7>>}

\* int((self.current_processing_index / total_items) * 100); the double
\* product is never below the quotient for total_items up to 7
base_progress(index, total_items) == (index * 100) \div total_items

\* int((percentage / 100) * (1 / total_items) * 100)
item_progress(percentage, total_items) ==
    (percentage \div total_items)
        - (IF <<percentage, total_items>> \in FloatShort THEN 1 ELSE 0)

Min(a, b) == IF a < b THEN a ELSE b

\* the value handed to progress_bar.setValue
overall_progress(index, percentage, total_items) ==
    IF total_items > 0
    THEN Min(base_progress(index, total_items)
                 + item_progress(percentage, total_items), 100)
    ELSE percentage

progressFrame == <<svcVars, runVars, guiVars, probe, is_valid, storeVars,
                   batch_status, execVars, parseVars, tripVars, payloadVars,
                   keyVars, otpVars, excelVars>>

\* the progress signal of the worker reaches _on_progress
OnProgress ==
    /\ ~progress_in.set
    /\ \E total_items \in 0..MaxBatch, percentage \in 0..100 :
       \E index \in 0..(IF total_items = 0 THEN 0 ELSE total_items - 1) :
          /\ progress_in' = [total_items |-> total_items,
                             current_processing_index |-> index,
                             percentage |-> percentage, set |-> TRUE]
          /\ progress_bar' = overall_progress(index, percentage, total_items)
    /\ UNCHANGED progressFrame

\* _parse_fte_match_excel and _parse_shoaib_match_excel.  A row is the
\* cells the parsers read; amounts are kept in hundredths.

MaxSheetRows == 2

\* column A (Shoaib Match); the entry date, informal duty, complete duty,
\* release date and house cells of either dialect
SheetRows ==
    [a : {"", "e1", "e2"}, entry_date : {"", "d1"},
     informal : {"", "1.00", "x"}, complete : {"2.00", "x"},
     release_date : {"d2"}, house : {"", "h"}]

Workbooks ==
    [dialect : {"fte", "shoaib"},
     sheet : UNION {[1..n -> SheetRows] : n \in 0..MaxSheetRows}]

NoWorkbook == [dialect |-> "none", sheet |-> <<>>]

NoTotals == [total_house |-> 0, total_informal |-> 0, complete_duty |-> 0,
             total_duty |-> 0, entry_dates |-> {}, release_dates |-> {},
             unique_entries |-> {}, failed |-> {}]

\* float(cell) raises ValueError
NotNumeric(cell) == cell = "x"

\* float(cell.value or 0), in hundredths
Float(cell) ==
    CASE cell = "1.00" -> 100
      [] cell = "2.00" -> 200
      [] OTHER         -> 0

\* the dates a row adds: cells that are not None or ""
DatesOf(cell) == IF cell = "" THEN {} ELSE {cell}

HouseOf(row) == IF row.house = "" THEN 0 ELSE 1

\* one pass of the loop of _parse_fte_match_excel; i is the row's number
FteRow(t, row, i) ==
    LET housed == [t EXCEPT !.total_house = @ + HouseOf(row)]
        informed == [housed EXCEPT !.total_informal = @ + Float(row.informal)]
    IN  IF NotNumeric(row.informal)
        THEN [housed EXCEPT !.failed = @ \cup {i}]
        ELSE IF NotNumeric(row.complete)
        THEN [informed EXCEPT !.failed = @ \cup {i}]
        ELSE [informed EXCEPT
                 !.complete_duty = @ + Float(row.complete),
                 !.total_duty = @ + Float(row.informal) + Float(row.complete),
                 !.entry_dates = @ \cup DatesOf(row.entry_date),
                 !.release_dates = @ \cup DatesOf(row.release_date)]

\* one pass of the loop of _parse_shoaib_match_excel
ShoaibRow(t, row, i) ==
    LET housed == [t EXCEPT !.total_house = @ + HouseOf(row)]
        dated(u) == [u EXCEPT
                        !.entry_dates = @ \cup DatesOf(row.entry_date),
                        !.release_dates = @ \cup DatesOf(row.release_date)]
    IN  IF row.a = "" THEN t
        ELSE IF row.a \in t.unique_entries THEN dated(housed)
        ELSE IF NotNumeric(row.informal) \/ NotNumeric(row.complete)
        THEN [housed EXCEPT !.failed = @ \cup {i}]
        ELSE dated([housed EXCEPT
                       !.unique_entries = @ \cup {row.a},
                       !.total_informal = @ + Float(row.informal),
                       !.complete_duty = @ + Float(row.complete)])

RECURSIVE ParseRows(_, _, _, _)
\* for row in sheet.iter_rows(min_row=2), from row i on
ParseRows(dialect, sheet, i, t) ==
    IF i > Len(sheet) THEN t
    ELSE ParseRows(dialect, sheet, i + 1,
                   IF dialect = "shoaib" THEN ShoaibRow(t, sheet[i], i)
                   ELSE FteRow(t, sheet[i], i))

\* _parse_custom_report_excel: the totals of the workbook
_parse_custom_report_excel(book) ==
    LET t == ParseRows(book.dialect, book.sheet, 1, NoTotals)
    IN  IF book.dialect = "shoaib"
        THEN [t EXCEPT !.total_duty = t.total_informal + t.complete_duty]
        ELSE t

excelFrame == <<svcVars, runVars, guiVars, probe, is_valid, storeVars,
                batch_status, execVars, parseVars, tripVars, payloadVars,
                keyVars, otpVars, progressVars>>

\* the downloaded workbook is parsed
ParseExcel ==
    /\ workbook = NoWorkbook
    /\ \E book \in Workbooks :
          LET t == _parse_custom_report_excel(book)
          IN  /\ workbook' = book
              /\ report' = [t EXCEPT !.failed = {}, !.unique_entries = {}]
              /\ failed_rows' = t.failed
    /\ UNCHANGED excelFrame

----------------------------------------------------------------------------
Init ==
    /\ pc = "idle"
    /\ sections = [ams |-> FALSE, entries |-> FALSE, custom |-> FALSE,
                   download_7501_pdf |-> FALSE]
    /\ checkbook_hawbs = "None"
    /\ local_session \in {"none", "old"}
    /\ session_cookies = FALSE
    /\ session_reused = FALSE
    /\ login_calls = 0
    /\ session_saved = "unset"
    /\ svc_error = "None"
    /\ db = NoRow
    /\ upsert_calls = <<>>
    /\ ret = NoReturn
    /\ summary = EmptyDict
    /\ result = NoResult
    /\ entries_data = None
    /\ should_download = "unset"
    /\ requests = <<>>
    /\ uploads = <<>>
    /\ logs = <<>>
    /\ raised = {}
    /\ transient = {}
    /\ parsed_items = <<>>
    /\ session_results = <<>>
    /\ current_processing_index = 0
    /\ threads = {}
    /\ next_thread = 0
    /\ start_enabled = FALSE
    /\ completed = <<>>
    /\ gui_crash = FALSE
    /\ probe = NoProbe
    /\ is_valid = "unset"
    /\ saving = "None"
    /\ previous = "None"
    /\ load_pc = "idle"
    /\ loaded = "unset"
    /\ batch_status = "running"
    /\ exec_query = NoQuery
    /\ attempt = 0
    /\ executions = 0
    /\ exec_ret = "unset"
    /\ table_rows = 0
    /\ supabase = "initial"
    /\ text = <<>>
    /\ parser = "none"
    /\ parse_ret = NoParse
    /\ items_in = <<>>
    /\ serialized = NotSerialized
    /\ items_out = NotParsed
    /\ report_args = NoArgs
    /\ form_data = EmptyDict
    /\ key_item = NoItem
    /\ key_pc = "idle"
    /\ s3_keys = {}
    /\ run_summary = NoRunSummary
    /\ item_result = NoItemResult
    /\ otp_pc = "idle"
    /\ otp_call = NoCall
    /\ clock = 0
    /\ current_code = NoCode
    /\ waited = 0
    /\ otp_ret = NoCode
    /\ progress_in = NoProgress
    /\ progress_bar = 0
    /\ workbook = NoWorkbook
    /\ report = NoTotals
    /\ failed_rows = {}

Next ==
    \/ ProcessMawbStart
    \/ AcquireRunner
    \/ ReuseSession
    \/ Login
    \/ RunnerStart
    \/ AmsStage
    \/ EntriesStage
    \/ CustomStage
    \/ PdfStage
    \/ SaveResult
    \/ SaveFailedResult

Spec == Init /\ [][Next]_vars

\* the widget under every sequence of clicks and worker reports
GuiNext ==
    \/ ParseClicked
    \/ ClearClicked
    \/ StartProcessingClicked
    \/ ItemFinished
    \/ ItemError

GuiSpec == Init /\ [][GuiNext]_vars

\* a batch that the user leaves alone while it runs
IdleParse == threads = {} /\ ParseClicked
IdleClear == threads = {} /\ ClearClicked
IdleStart == threads = {} /\ StartProcessingClicked

BatchNext ==
    \/ IdleParse
    \/ IdleClear
    \/ IdleStart
    \/ ItemFinished
    \/ ItemError

\* a started ProcessingThread ends and its signal is delivered
BatchSpec ==
    Init /\ [][BatchNext]_vars /\ WF_vars(ItemFinished \/ ItemError)

\* a batch during which cancellation can be requested
CancelNext ==
    \/ BatchNext
    \/ cancel_batch

CancelSpec ==
    Init /\ [][CancelNext]_vars /\ WF_vars(ItemFinished \/ ItemError)

----------------------------------------------------------------------------
\* Properties of the pipeline (Spec)

\* NetChbDutyRunner.process_mawb has returned its result to the service
RunnerReturned == pc = "returned"

\* StandaloneDutyService.process_mawb has ended, by return or by raising
CallEnded == pc \in {"done", "raised"}

MasterNotFound == Get(summary, "Master Status") = "Not Found"

GateFailed == should_download = "False"

PdfUrl == "7501 Batch PDF URL"

\* C1: when the AMS search reports that the master does not exist, no
\* Entries, Custom Report or 7501 PDF request is sent, and the Result the
\* service upserts and returns has status failed with error_message
\* "Master not found".
C1_MasterNotFoundFails ==
    (pc = "done" /\ MasterNotFound) =>
        /\ ~InSeq("entries_search", requests)
        /\ ~InSeq("custom_report", requests)
        /\ ~InSeq("pdf", requests)
        /\ db.status = "failed"
        /\ db.error_message = "Master not found"
        /\ ret.status = "failed"

\* C2: every call of the service's process_mawb that fails (a lookup finds
\* nothing, setup fails, login raises, the pipeline raises, the success
\* upsert raises) leaves a Result with status failed and an error_message.
C2_FailedCallLeavesFailedResult ==
    (CallEnded /\ ~ret.success) =>
        /\ db.status = "failed"
        /\ db.error_message # "None"

\* the Summary fields each stage writes
StageFields(stage) ==
    CASE stage = "ams" ->
            {"AMS Total HAWBs", "AMS Duty", "AMS Total T-11 Entries",
             "AMS Entries Accepted", "7501 Total Houses", "Rejected Entries"}
      [] stage = "entries" -> {"Entry Date"}
      [] stage = "custom" ->
            {"Report Duty", "Report Total House", "Total Informal Duty",
             "Complete Total Duty", "Cargo Release Date"}
      [] OTHER -> {"7501 Total T-11 Entries", "7501 Duty", PdfUrl}

\* the stages that come after a stage and are enabled by the sections
LaterEnabled(stage) ==
    LET e == IF sections.entries \/ sections.custom \/
                sections.download_7501_pdf THEN {"entries"} ELSE {}
        c == IF sections.custom THEN {"custom"} ELSE {}
        p == IF sections.download_7501_pdf THEN {"pdf"} ELSE {}
    IN  CASE stage = "ams"     -> e \cup c \cup p
          [] stage = "entries" -> c \cup p
          [] stage = "custom"  -> p
          [] OTHER             -> {}

\* C5: if a stage raises at any step, then when the runner's process_mawb
\* ends every Summary field of that stage still holds "N/A", the later
\* enabled stages have been attempted, and process_mawb returns normally.
C5_FailedStageKeepsNA ==
    RunnerReturned =>
        \A stage \in raised :
            /\ \A k \in StageFields(stage) : Get(summary, k) = NA
            /\ \A later \in LaterEnabled(stage) : InSeq(later, logs)

\* keys the stages add to the Summary on top of the fixed ones
ExtraKeys ==
    {"Master Status", "AMS Arrival Date", "Entries Status",
     "excel_storage_path", "excel_download_url"}

C7_Case ==
    /\ sections.ams /\ sections.custom /\ sections.download_7501_pdf
    /\ EntryRows(entries_data) # <<>>
    /\ GateFailed

\* C7: in that case no 7501 PDF request is sent, nothing is uploaded to the
\* PDF storage, and the Result is still recorded with status success (the
\* database accepting every upsert it is sent).
C7_GateFailureStillSuccess ==
    (pc = "done" /\ C7_Case /\ svc_error # "upsert failed") =>
        /\ ~InSeq("pdf", requests)
        /\ ~InSeq("pdf", uploads)
        /\ db.status = "success"

\* C8 as stated: in a Result of a run whose gate was evaluated and failed,
\* Summary["7501 Batch PDF URL"] is the empty string.
C8_FailedGateEmptyUrl ==
    (pc = "done" /\ GateFailed /\ db.status = "success") =>
        Get(db.summary, PdfUrl) = ""

\* C8 amended: after a failed gate the runner's summary, and the success
\* Result stored from it, hold "N/A" under "7501 Batch PDF URL".
C8_FailedGateKeepsNA ==
    GateFailed =>
        /\ Get(summary, PdfUrl) = NA
        /\ db.status = "success" => Get(db.summary, PdfUrl) = NA

C8_Witness ==
    pc = "done" /\ GateFailed /\ db.status = "success"

\* C9: when the Entries stage reports entries_not_found, no Custom Report
\* request and no 7501 PDF request is sent, whatever sections are selected.
C9_NotFoundSendsNothingMore ==
    EntriesNotFound(entries_data) =>
        /\ ~InSeq("custom_report", requests)
        /\ ~InSeq("pdf", requests)

C9_Witness ==
    /\ RunnerReturned
    /\ EntriesNotFound(entries_data)
    /\ sections.custom /\ sections.download_7501_pdf
    /\ InSeq("custom", logs) /\ InSeq("pdf", logs)

\* C10 as stated: when the Entries search finds no entries, the Result
\* upserted for the MAWB has status failed.
C10_NotFoundFails ==
    (pc = "done" /\ EntriesNotFound(entries_data)) => db.status = "failed"

\* C10 amended: when the Entries search finds no entries the runner does
\* not mark its result failed, the service's first upsert carries status
\* success, and the Result stored from it has Entries Status "Not Found";
\* a failed Result is stored only after that upsert raised.
C10_NotFoundUpsertsSuccess ==
    EntriesNotFound(entries_data) =>
        /\ result.status # "failed"
        /\ upsert_calls # <<>> => upsert_calls[1] = "success"
        /\ db.status = "success" =>
               Get(db.summary, "Entries Status") = "Not Found"
        /\ db.status = "failed" => Len(upsert_calls) = 2

C10_Witness ==
    pc = "done" /\ EntriesNotFound(entries_data) /\ db.status = "success"

----------------------------------------------------------------------------
\* Properties of the widget (BatchSpec, GuiSpec)

RunInProgress == threads # {}

\* the run has completed with one entry per item, in the order of the items
BatchDone ==
    /\ threads = {}
    /\ completed # <<>>
    /\ completed[Len(completed)] = session_results
    /\ Len(session_results) = Len(parsed_items)
    /\ \A i \in 1..Len(parsed_items) :
          session_results[i].mawb = parsed_items[i]

\* C3: a batch of N items that the user leaves alone while it runs reaches
\* completion with exactly N entries in session_results, in the order of
\* the items; an item that ends failed or with a thread error still gets
\* its one entry and the items after it are still processed.
C3_BatchCompletes == RunInProgress ~> BatchDone

\* a batch of two whose first item failed and whose second one succeeded
C3_Witness ==
    /\ BatchDone
    /\ Len(session_results) = 2
    /\ session_results[1].status = "failed"
    /\ session_results[2].status = "success"

\* C4: whatever the user clicks (Parse & Add, Clear All, Start Processing),
\* at most one item is being processed at any moment; Start Processing
\* cannot start a second run while one is in progress.
C4_OneItemAtATime == Cardinality(threads) <= 1

----------------------------------------------------------------------------
\* Properties of the session handling (Spec)

\* the session block of the service has ended, one way or the other
SessionSettled == login_calls > 0 \/ session_reused

\* runner.login returned and the pipeline has not ended yet
LoggedIn ==
    /\ login_calls = 1
    /\ pc \in {"runner", "ams", "entries", "custom", "pdf", "returned"}

\* C11 as stated: login is performed if and only if there is no persisted
\* session or the probe does not report it valid; a valid session means no
\* login and no rewrite of the stored session; after a successful login the
\* new session state is saved before any pipeline stage runs.
C11_LoginSavesSession ==
    /\ SessionSettled => (login_calls = 1 <=> ~session_reused)
    /\ session_reused => local_session = "old"
    /\ LoggedIn => local_session = "new"

\* C11 amended: as above, except that after a successful login the save is
\* only tried before any pipeline stage runs: when it fails the failure is
\* swallowed, the file is left as it was or incomplete, and the pipeline
\* still runs.
C11_LoginTriesToSaveSession ==
    /\ SessionSettled => (login_calls = 1 <=> ~session_reused)
    /\ session_reused => local_session = "old" /\ session_saved = "unset"
    /\ LoggedIn => /\ session_saved \in {"True", "False"}
                   /\ session_saved = "True" <=> local_session = "new"
    /\ pc = "runner" => requests = <<>> /\ logs = <<>>

\* a fresh login whose session was saved, with the first stage under way
C11_Witness ==
    /\ pc = "entries"
    /\ login_calls = 1
    /\ session_saved = "True"
    /\ local_session = "new"
    /\ InSeq("ams", logs)

LoginRaised == svc_error = "login failed"

ProbeNext ==
    \/ ReceiveProbe
    \/ IsSessionValid

ProbeSpec == Init /\ [][ProbeNext]_vars

\* the HTTP probe got a 200 response and its body is what decides
HttpDecides == probe.cookies /\ probe.http = "200"

\* C13 as stated: is_session_valid returns True if and only if the probe
\* response contains the AMS-page anchor and not the login-form anchor,
\* a 200 response with neither anchor and a non-200 response included.
C13_ValidIffAnchors ==
    is_valid # "unset" =>
        (is_valid = "True" <=>
            (probe.cookies /\ probe.http # "raise" /\ probe.pre /\ ~probe.lName))

\* C13 amended: on a 200 response is_session_valid returns True if and only
\* if the body has no login-form anchor and either has the AMS-page anchor
\* or the final URL contains neither "security" nor "login"; without
\* cookies, on a request error or on a non-200 response the same test is
\* made on the page the browser loads, False when loading it raises, and
\* the call raises only when there is no page.
C13_ValidUnlessLoginPage ==
    is_valid # "unset" =>
        /\ HttpDecides =>
              (is_valid = "True" <=>
                  (~probe.lName /\ (probe.pre \/ ~probe.login_url)))
        /\ HttpDecides => is_valid # "raise"
        /\ ~HttpDecides =>
              (is_valid = "True" <=>
                  /\ probe.page /\ probe.goto_ok
                  /\ ~probe.lName_visible
                  /\ (probe.pre_visible \/ ~probe.page_login_url))
        /\ ~HttpDecides => (is_valid = "raise" <=> ~probe.page)

\* a 200 response with neither anchor, away from the login URL: valid
C13_Witness ==
    /\ is_valid = "True"
    /\ HttpDecides
    /\ ~probe.pre /\ ~probe.lName /\ ~probe.login_url

\* the session file of one broker under saves and loads
StoreNext ==
    \/ SaveSessionOpen
    \/ SaveSessionWrite
    \/ SaveSessionDump
    \/ SaveSessionFail
    \/ LoadSessionExists
    \/ LoadSessionRead

StoreSpec == Init /\ [][StoreNext]_vars

\* C14: save_session is atomic: when a save is interrupted or fails, or a
\* load runs while it is in progress, load_session returns the complete
\* previous state or the complete new state, never nothing when a previous
\* state existed.
C14_SaveIsAtomic ==
    (loaded # "unset" /\ previous # "None") => loaded # "None"

\* C15: once cancellation has been requested while an item is being
\* processed, the end of that item starts no further item: no new
\* ProcessingThread appears.
C15_CancelStartsNoItem ==
    [][(batch_status = "cancelled" /\ threads # {}) =>
          threads' \subseteq threads]_vars

\* _execute under every query
ExecNext ==
    \/ ExecuteCalled
    \/ ExecuteAttempt

ExecSpec == Init /\ [][ExecNext]_vars

ExecEnded == exec_query # NoQuery /\ exec_ret # "unset"

\* every failing execution of the query is a transient error
AllTransient ==
    \A i \in 1..Len(exec_query) :
        is_resource_error(exec_query[i]) \/ is_connection_error(exec_query[i])

\* C16: a query that fails f times with a transient error and then
\* succeeds returns its data after exactly f+1 executions when f <= 2, and
\* the upserted key then has a single row; the query is never executed more
\* than 3 times; with f >= 3 the error is raised after exactly 3
\* executions; a non-transient error is raised after exactly 1 execution.
C16_ExecuteRetries ==
    /\ executions <= 3
    /\ (ExecEnded /\ AllTransient /\ Len(exec_query) <= 2) =>
          /\ exec_ret = "data"
          /\ executions = Len(exec_query) + 1
          /\ table_rows = 1
    /\ (ExecEnded /\ AllTransient /\ Len(exec_query) >= 3) =>
          /\ exec_ret = "raise"
          /\ executions = 3
    /\ (ExecEnded /\ Len(exec_query) >= 1
          /\ ~is_resource_error(exec_query[1])
          /\ ~is_connection_error(exec_query[1])) =>
          /\ exec_ret = "raise"
          /\ executions = 1

\* an upsert that failed twice with a connection reset has succeeded
C16_Witness ==
    /\ ExecEnded
    /\ exec_query = <<"connection reset", "connection reset">>
    /\ exec_ret = "data"
    /\ executions = 3

\* how often request q was sent
Attempts(q) == Cardinality({i \in 1..Len(requests) : requests[i] = q})

\* C17: a Portal request of a stage that fails with a transient error is
\* attempted again (up to 3 times), so it is never sent only once.
C17_TransientFailureRetried ==
    \A q \in transient : Attempts(q) >= 2

\* position of a request in the stage order
StageRank(q) ==
    CASE q = "ams_search"     -> 1
      [] q = "ams_detail"     -> 2
      [] q = "entries_search" -> 3
      [] q = "custom_report"  -> 4
      [] q = "pdf"            -> 5

\* no request of an earlier stage after a request of a later stage
InStageOrder ==
    \A i, j \in 1..Len(requests) :
        i < j => StageRank(requests[i]) <= StageRank(requests[j])

EntriesEnabled ==
    sections.entries \/ sections.custom \/ sections.download_7501_pdf

\* a disabled AMS, Custom Report or PDF stage issues no request
DisabledStagesSilent ==
    /\ ~sections.ams =>
          ~InSeq("ams_search", requests) /\ ~InSeq("ams_detail", requests)
    /\ ~sections.custom => ~InSeq("custom_report", requests)
    /\ ~sections.download_7501_pdf => ~InSeq("pdf", requests)

\* C18 as stated: the requests of a run are in stage order, the Entries
\* search is issued exactly when entries, custom or download_7501_pdf is
\* enabled, and a disabled AMS, Custom Report or PDF stage issues no request.
C18_StageOrderExactly ==
    /\ InStageOrder
    /\ RunnerReturned => (InSeq("entries_search", requests) <=> EntriesEnabled)
    /\ DisabledStagesSilent

\* C18, amended: the requests of a run are in stage order; the Entries
\* search is issued only when entries, custom or download_7501_pdf is
\* enabled, and it is issued whenever one of them is enabled, the session
\* has cookies and the run did not end at the AMS stage with master not
\* found; a disabled AMS, Custom Report or PDF stage issues no request.
C18_StageOrder ==
    /\ InStageOrder
    /\ InSeq("entries_search", requests) => EntriesEnabled
    /\ (RunnerReturned /\ EntriesEnabled /\ session_cookies
           /\ ~MasterNotFound) => InSeq("entries_search", requests)
    /\ DisabledStagesSilent

\* a run that sent the request of every stage
C18_Witness ==
    /\ RunnerReturned
    /\ requests = <<"ams_search", "ams_detail", "entries_search",
                    "custom_report", "pdf">>

\* both parsers under every text
ParseNext ==
    \/ PasteText
    \/ ParseGui
    \/ ParseService

ParseSpec == Init /\ [][ParseNext]_vars

Parsed == parser \in {"gui", "service"}

ParseOf(which, t) == IF which = "gui" THEN GuiParse(t) ELSE ServiceParse(t)

\* the token in the MAWB position of an input line
MawbField(line) ==
    IF Len(line) > 1 THEN line[Len(line)].toks[1]
    ELSE IF line[1].sep = "," THEN line[1].toks[Len(line[1].toks)]
    ELSE line[1].toks[1]

\* the MAWB field of the line digit-extracts to exactly 11 digits
WellFormed(line) == DigitLen(digits_of(MawbField(line))) = 11

\* C19: for every text parse_mawb_input returns a list without raising, and
\* a line whose MAWB field does not digit-extract to 11 digits produces no
\* item and leaves the items of the other lines as they are: the result is
\* that of the text without those lines.
C19_InvalidLinesDropped ==
    Parsed =>
        /\ ~parse_ret.raised
        /\ parse_ret = ParseOf(parser, SelectSeq(text, WellFormed))

\* C20: when every line of the text is in a recognized format and holds one
\* 11-digit token, parse_mawb_input returns one item per line, in line
\* order, whose mawb is the digit-extract of the token of that line.
C20_OneItemPerLine ==
    (Parsed /\ \A i \in 1..Len(text) : WellFormed(text[i])) =>
        /\ ~parse_ret.raised
        /\ parse_ret.items =
              [i \in 1..Len(text) |->
                  [mawb |-> <<digits_of(MawbField(text[i]))>>]]

\* serialize, then parse
TripNext ==
    \/ Serialize
    \/ ParseSerialized

TripSpec == Init /\ [][TripNext]_vars

\* C21: writing each item as one tab-joined 5-column line, absent fields as
\* empty columns, and parsing the lines gives back the same items with the
\* same field values in the same order.
C21_RoundTrip ==
    items_out # NotParsed => items_out = items_in

PayloadSpec == Init /\ [][BuildPayload]_vars

\* C22: in the form body begin is the oldest entry date; when today is 25
\* days or more after it, end is begin + 25 days, otherwise end is today;
\* for every oldest entry date, every today and every template_payload.
C22_EndDate ==
    report_args # NoArgs =>
        /\ form_data["begin"] = Mmddyy(report_args.oldest_entry)
        /\ form_data["end"] =
              IF report_args.today - report_args.oldest_entry >= 25
              THEN Mmddyy(report_args.oldest_entry + 25)
              ELSE Mmddyy(report_args.today)

\* the Custom Report was downloaded and parsed, the runner's upload of the
\* Excel did not leave a stored path with a URL, and the service's own upload
\* of it raised: every upload of the Excel failed
ExcelNeverUploaded ==
    /\ result.download_path
    /\ Get(summary, "Report Duty") # NA
    /\ svc_error = "Failed to upload duty report to S3"

\* C23: when every upload of the Custom Report Excel fails after the report
\* was downloaded and parsed, the Result is still recorded with status
\* success and with the Report fields parsed from the spreadsheet.
C23_ExcelUploadFailureKeepsSuccess ==
    (pc = "done" /\ ExcelNeverUploaded) =>
        /\ db.status = "success"
        /\ Get(db.summary, "Report Duty") = Get(summary, "Report Duty")
        /\ Get(db.summary, "Report Total House") =
               Get(summary, "Report Total House")

KeyNext == RunnerStores \/ ServiceReturns \/ KeyItemFinished \/ KeyItemError

KeySpec == Init /\ [][KeyNext]_vars

ExcelStored == \E k \in s3_keys : k.folder = "customizable-reports"

PdfStored == \E k \in s3_keys : k.folder = "7501-batch-pdfs"

\* C24: for a successfully processed item, the artifact_path and the pdf_path
\* recorded in its result are keys the Excel and the PDF were uploaded under,
\* and each is the key the naming rule gives for the item's mawb, airport
\* code, customer and template name.
C24_RecordedKeys ==
    (key_pc = "finished" /\ item_result.status = "success") =>
        /\ ExcelStored =>
              /\ item_result.artifact_path \in s3_keys
              /\ item_result.artifact_path =
                     upload_excel(key_item.mawb, key_item.airport_code,
                                  key_item.customer, key_item.template_name)
        /\ PdfStored =>
              /\ item_result.pdf_path \in s3_keys
              /\ item_result.pdf_path =
                     upload_pdf(key_item.mawb, key_item.airport_code,
                                key_item.customer)

OtpNext == GetFreshOtp \/ ComputeCode \/ ReadTime \/ Fallback \/ Tick

OtpSpec == Init /\ [][OtpNext]_vars

\* C25: a code get_fresh_otp returns is the TOTP of the period current at
\* the moment of return, and that period has at least
\* min_seconds_remaining seconds left.
C25_FreshCode ==
    (otp_pc = "returned" /\ otp_ret # NoCode) =>
        /\ otp_ret = clock \div 30
        /\ 30 - (clock % 30) >= otp_call.min_seconds_remaining

ProgressSpec == Init /\ [][OnProgress]_vars

\* C26: for a batch of N >= 1 items, item index i and per-item percentage p,
\* the overall progress value _on_progress sets is floor((i + p/100) / N * 100),
\* which is floor((100 * i + p) / N).
C26_OverallProgress ==
    (progress_in.set /\ progress_in.total_items >= 1) =>
        progress_bar =
            (100 * progress_in.current_processing_index
                 + progress_in.percentage) \div progress_in.total_items

\* C27: with ams, custom and download_7501_pdf enabled, a 7501 PDF request
\* is sent only in a run whose AMS stage and Custom Report stage both
\* completed, none of their fields still "N/A", and whose verification
\* before the download passed on those values.
C27_PdfOnlyAfterBothStages ==
    (/\ sections.ams /\ sections.custom /\ sections.download_7501_pdf
     /\ InSeq("pdf", requests)) =>
        /\ "ams" \notin raised
        /\ "custom" \notin raised
        /\ ~CustomSkipped(entries_data)
        /\ \A k \in StageFields("ams") \cup StageFields("custom") :
               Get(summary, k) # NA
        /\ should_download = "True"

\* C28: while a batch is running no step changes parsed_items, and
\* current_processing_index is an index into parsed_items that refers to the
\* item the running worker was started for.
C28_ItemsFrozenWhileRunning ==
    [][threads # {} =>
          /\ parsed_items' = parsed_items
          /\ \A t \in threads :
                /\ current_processing_index < Len(parsed_items)
                /\ parsed_items[current_processing_index + 1] = t.mawb]_vars

\* C29: after any sequence of Parse & Add and Clear All, parsed_items holds
\* no MAWB twice.
C29_NoDuplicateMawb ==
    \A i, j \in 1..Len(parsed_items) :
        parsed_items[i] = parsed_items[j] => i = j

ExcelSpec == Init /\ [][ParseExcel]_vars

\* the sheet without the rows whose try block raised
WithoutFailed ==
    LET kept == {i \in 1..Len(workbook.sheet) : i \notin failed_rows}
        F[n \in 0..Len(workbook.sheet)] ==
            IF n = 0 THEN <<>>
            ELSE IF n \in kept THEN Append(F[n - 1], workbook.sheet[n])
            ELSE F[n - 1]
    IN  F[Len(workbook.sheet)]

\* C30: in both dialects a row in which a cell read or a numeric conversion
\* fails contributes nothing: the house count, the duty sums and the date
\* sets are those of the workbook with the failed rows removed.
C30_FailedRowsContributeNothing ==
    workbook # NoWorkbook =>
        LET clean == _parse_custom_report_excel(
                         [workbook EXCEPT !.sheet = WithoutFailed])
        IN  /\ report.total_house = clean.total_house
            /\ report.total_informal = clean.total_informal
            /\ report.complete_duty = clean.complete_duty
            /\ report.total_duty = clean.total_duty
            /\ report.entry_dates = clean.entry_dates
            /\ report.release_dates = clean.release_dates

====
